---- MODULE Spec2Model ----
(***************************************************************************)
(* A model of the plagiarism-detection core: the token normalizer, the     *)
(* Rabin-Karp greedy string tiling (GST) matcher, the structural method    *)
(* selection and the score fusion with its student-safe bias.              *)
(*                                                                         *)
(* Scores are fixed-point numbers: one unit is 1/1000 of a percentage      *)
(* point, so 100% is 100000 and 89.999% is 89999.                          *)
(***************************************************************************)
EXTENDS Integers, Sequences, FiniteSets, TLC

VARIABLES
    \* ---- RKGSTSimilarityAnalyzer._greedy_string_tiling ----
    tokens1,            \* token sequence of code 1
    tokens2,            \* token sequence of code 2
    min_match_length,   \* self.min_match_length
    tokhash,            \* hash(token), fixed for one interpreter run
    marked1,            \* marked1[i] of the source is marked1[i+1] here
    marked2,
    matches,            \* list of tiles <<start1, start2, length>> (0-based)
    gst_similarity,     \* what RKGSTSimilarityAnalyzer.compute_similarity returns
    gpc,                \* "off" | "idle" | "loop" | "done" | "returned"
    \* ---- PlagiarismScorer: fusion, bias and severity ----
    lexical,            \* lexical_score
    structural,         \* structural_score
    semantic,           \* semantic_score
    raw_score,          \* raw_score handed to _apply_student_safe_bias
    score,              \* the running score of _apply_student_safe_bias
    adjustments,        \* the adjustment log
    severity,           \* result of _classify_severity
    caller,             \* "compute_similarity" when raw_score is the weighted sum, else "direct"
    fpc,                \* "off" | "start" | "rule1" | "rule2" | "rule3" | "clamp" | "classify" | "done"
    \* ---- StructuralSimilarity ----
    method_arg,         \* the method argument of StructuralSimilarity(...), "None" when omitted
    method,             \* self.method
    ast_score,          \* what ASTSimilarityAnalyzer.compute_similarity returns for the pair
    rkgst_score,        \* what RKGSTSimilarityAnalyzer.compute_similarity returns for the pair
    ts_score,           \* what TreeSitterStructuralAnalyzer.compute_similarity returns for the pair
    structural_result,  \* the dict compute_similarity returns
    spc,                \* "off" | "new" | "ready" | "done"
    \* ---- TokenNormalizer ----
    identifier_map,     \* self.identifier_map: original name -> label
    var_counter,        \* self.var_counter
    code_a,             \* code1 handed to the normalizer
    code_b,             \* code2 handed to the normalizer
    norm_a,             \* normalize(code1)
    norm_b,             \* normalize(code2)
    renorm,             \* normalize(normalize(code1))
    npc,                \* "off" | "start" | "first" | "second" | "again" | "calls"
    ncalls,             \* number of normalize() calls made on the instance
    prev_map,           \* self.identifier_map as the latest call found it
    \* ---- ASTSimilarityAnalyzer ----
    tree1,              \* what ast.parse(code1) does: a tree (its ast.walk order) or an exception
    tree2,              \* what ast.parse(code2) does
    ast_similarity,     \* outcome of ASTSimilarityAnalyzer.compute_similarity
    apc,                \* "off" | "call" | "done"
    \* ---- TreeSitterStructuralAnalyzer ----
    ts_language,        \* the language argument
    ts_code1,           \* code1 and what the parser makes of it
    ts_code2,
    ts_similarity,      \* what TreeSitterStructuralAnalyzer.compute_similarity returns
    tpc,                \* "off" | "call" | "done"
    \* ---- PythonNormalizer ----
    py_code,            \* the code argument of PythonNormalizer.normalize
    py_result,          \* outcome of PythonNormalizer.normalize
    ppc,                \* "off" | "call" | "done"
    \* ---- configuration modules ----
    weight_groups,      \* the three weight dictionaries as written in the config modules
    imported,           \* the config modules whose top level has run
    validations,        \* how many times each weight group has been checked
    ncompute,           \* compute_similarity calls served since load
    cpc,                \* "off" | "loading" | "ready" | "fatal"
    \* ---- batch runs ----
    driver,             \* "analyze_all" (PlagiarismScorer) | "app" (the pairwise loop of app.py)
    nsubs,              \* len(submissions)
    bi,                 \* index i of the loop
    bj,                 \* index j of the loop
    computed,           \* the compute_similarity calls made so far, as pairs <<i, j>>
    max_similarity,     \* analyze_all: running maximum for submission i
    most_similar_id,    \* analyze_all: its partner, "None" until one is found
    results,            \* the result rows
    bpc,                \* "off" | "loop" | "done" | "aborted"
    \* ---- TreeSitterStructuralAnalyzer: language and parser caches ----
    language_cache,     \* keys of self._language_cache
    parser_cache,       \* keys of self._parser_cache
    grammars_built,     \* per language, the get_language calls that returned a grammar
    parsers_built,      \* per language, the Parser objects constructed
    nparser_calls,      \* _get_parser calls served by the instance
    kpc                 \* "off" | "calls"

gstVars == <<tokens1, tokens2, min_match_length, tokhash, marked1, marked2, matches,
             gst_similarity, gpc>>
fuseVars == <<lexical, structural, semantic, raw_score, score, adjustments, severity, caller, fpc>>

structVars == <<method_arg, method, ast_score, rkgst_score, ts_score, structural_result, spc>>

normVars == <<identifier_map, var_counter, code_a, code_b, norm_a, norm_b, renorm, npc>>

callVars == <<ncalls, prev_map>>

astVars == <<tree1, tree2, ast_similarity, apc>>

tsVars == <<ts_language, ts_code1, ts_code2, ts_similarity, tpc>>

pyVars == <<py_code, py_result, ppc>>

cfgVars == <<weight_groups, imported, validations, ncompute, cpc>>

batchVars == <<driver, nsubs, bi, bj, computed, max_similarity, most_similar_id, results, bpc>>

cacheVars == <<language_cache, parser_cache, grammars_built, parsers_built, nparser_calls, kpc>>

moreVars == <<callVars, astVars, tsVars, pyVars, cfgVars, batchVars, cacheVars>>

vars == <<gstVars, fuseVars, structVars, normVars, moreVars>>

(***************************************************************************)
(* Bounds of the model                                                     *)
(***************************************************************************)
MaxLen == 4          \* longest token sequence fed to GST
MaxMML == 3          \* largest min_match_length tried

Tokens == {"a", "b"}
HashVals == {0, 1}   \* values hash(token) is drawn from; equal values collide

Max(a, b) == IF a >= b THEN a ELSE b
Min(a, b) == IF a <= b THEN a ELSE b

SeqsUpTo(S, n) == UNION {[1..k -> S] : k \in 0..n}

\* the parts of the state a specification does not exercise stay parked
GstOff ==
    /\ tokens1 = <<>> /\ tokens2 = <<>> /\ min_match_length = 3
    /\ tokhash = [t \in Tokens |-> 0]
    /\ marked1 = <<>> /\ marked2 = <<>> /\ matches = <<>>
    /\ gst_similarity = 0 /\ gpc = "off"

FuseOff ==
    /\ lexical = 0 /\ structural = 0 /\ semantic = 0 /\ raw_score = 0 /\ score = 0
    /\ adjustments = <<>> /\ severity = "none" /\ caller = "none" /\ fpc = "off"

StructOff ==
    /\ method_arg = "None" /\ method = "None"
    /\ ast_score = 0 /\ rkgst_score = 0 /\ ts_score = 0
    /\ structural_result = <<>> /\ spc = "off"

NormOff ==
    /\ identifier_map = <<>> /\ var_counter = 0
    /\ code_a = <<>> /\ code_b = <<>>
    /\ norm_a = <<>> /\ norm_b = <<>> /\ renorm = <<>> /\ npc = "off"

CallOff == ncalls = 0 /\ prev_map = <<>>

AstOff ==
    /\ tree1 = <<>> /\ tree2 = <<>> /\ ast_similarity = <<>> /\ apc = "off"

TsOff ==
    /\ ts_language = "python" /\ ts_code1 = <<>> /\ ts_code2 = <<>>
    /\ ts_similarity = 0 /\ tpc = "off"

PyOff == py_code = <<>> /\ py_result = <<>> /\ ppc = "off"

CfgOff ==
    /\ weight_groups = <<>> /\ imported = {} /\ validations = <<>>
    /\ ncompute = 0 /\ cpc = "off"

BatchOff ==
    /\ driver = "none" /\ nsubs = 0 /\ bi = 0 /\ bj = 0 /\ computed = <<>>
    /\ max_similarity = 0 /\ most_similar_id = "None" /\ results = <<>> /\ bpc = "off"

CacheOff ==
    /\ language_cache = {} /\ parser_cache = {}
    /\ grammars_built = <<>> /\ parsers_built = <<>>
    /\ nparser_calls = 0 /\ kpc = "off"

MoreOff == CallOff /\ AstOff /\ TsOff /\ PyOff /\ CfgOff /\ BatchOff /\ CacheOff

notGst == <<fuseVars, structVars, normVars, moreVars>>
notFuse == <<gstVars, structVars, normVars, moreVars>>
notStruct == <<gstVars, fuseVars, normVars, moreVars>>
notNorm == <<gstVars, fuseVars, structVars, moreVars>>
firstVars == <<gstVars, fuseVars, structVars, normVars>>
notCall == <<gstVars, fuseVars, structVars, astVars, tsVars, pyVars, cfgVars, batchVars, cacheVars>>
notAst == <<firstVars, callVars, tsVars, pyVars, cfgVars, batchVars, cacheVars>>
notTs == <<firstVars, callVars, astVars, pyVars, cfgVars, batchVars, cacheVars>>
notPy == <<firstVars, callVars, astVars, tsVars, cfgVars, batchVars, cacheVars>>
notCfg == <<firstVars, callVars, astVars, tsVars, pyVars, batchVars, cacheVars>>
notBatch == <<firstVars, callVars, astVars, tsVars, pyVars, cfgVars, cacheVars>>
notCache == <<firstVars, callVars, astVars, tsVars, pyVars, cfgVars, batchVars>>

(***************************************************************************)
(* RK-GST configuration (src/config/weights.py RKGST_CONFIG)               *)
(***************************************************************************)
hash_base == 256
hash_prime == 101

(***************************************************************************)
(* Greedy string tiling                                                    *)
(***************************************************************************)
\* Python slice seq[a:b] for 0 <= a <= b <= len(seq)
Slice(seq, a, b) == SubSeq(seq, a + 1, b)

\* faulty variant: only the first token of the window is looked at
AnyMarked_FirstOnly(marked, a, b) == a < b /\ a + 1 <= Len(marked) /\ marked[a + 1]

\* any(marked[a:b])
AnyMarked(marked, a, b) == \E k \in a..(b - 1) : k + 1 <= Len(marked) /\ marked[k + 1]

\* _hash_sequence: left fold  h = (h * base + hash(token) % prime) % prime
RECURSIVE HashSequence(_, _)
HashSequence(toks, h) ==
    IF toks = <<>> THEN 0
    ELSE (HashSequence(SubSeq(toks, 1, Len(toks) - 1), h) * hash_base
            + (h[toks[Len(toks)]] % hash_prime)) % hash_prime

\* faulty variant: a candidate window of tokens2 is accepted although part of it is claimed
CandidateOk_IgnoreMarked2(t1, t2, start1, j, length, m2, h) ==
    /\ HashSequence(Slice(t1, start1, start1 + length), h)
         = HashSequence(Slice(t2, j, j + length), h)
    /\ Slice(t1, start1, start1 + length) = Slice(t2, j, j + length)

\* faulty variant: a hash hit is accepted without comparing the tokens
CandidateOk_HashOnly(t1, t2, start1, j, length, m2, h) ==
    /\ ~AnyMarked(m2, j, j + length)
    /\ HashSequence(Slice(t1, start1, start1 + length), h)
         = HashSequence(Slice(t2, j, j + length), h)

\* faulty variant: the candidate hash is taken over one token too few
CandidateOk_StaleHash(t1, t2, start1, j, length, m2, h) ==
    /\ ~AnyMarked(m2, j, j + length)
    /\ HashSequence(Slice(t1, start1, start1 + length), h)
         = HashSequence(Slice(t2, j, j + length - 1), h)
    /\ Slice(t1, start1, start1 + length) = Slice(t2, j, j + length)

\* body of the inner loop of _rk_find_matches for one j: not skipped and accepted
CandidateOk(t1, t2, start1, j, length, m2, h) ==
    /\ ~AnyMarked(m2, j, j + length)
    /\ HashSequence(Slice(t1, start1, start1 + length), h)
         = HashSequence(Slice(t2, j, j + length), h)
    /\ Slice(t1, start1, start1 + length) = Slice(t2, j, j + length)

\* lengths the outer loop of _rk_find_matches reaches before its first break
\* on a marked token of tokens1
RkLengths(t1, start1, m1, mml) ==
    LET max_len == Len(t1) - start1
    IN  {L \in mml..max_len :
            \A L2 \in L..max_len : ~AnyMarked(m1, start1, start1 + L2)}

\* _rk_find_matches: the list holds at most one pair <<j, length>>
RkFindMatches(t1, t2, start1, m1, m2, mml, h) ==
    LET Js(L) == {j \in 0..(Len(t2) - L) : CandidateOk(t1, t2, start1, j, L, m2, h)}
        hit   == {L \in RkLengths(t1, start1, m1, mml) : Js(L) # {}}
    IN  IF hit = {} THEN <<>>
        ELSE LET L == CHOOSE x \in hit : \A y \in hit : y <= x
                 j == CHOOSE x \in Js(L) : \A y \in Js(L) : x <= y
             IN  << <<j, L>> >>

\* _find_longest_match: scan i upward, keep the first strictly longer match;
\* <<>> stands for None
RECURSIVE FindLongestFrom(_, _, _, _, _, _, _, _, _)
FindLongestFrom(t1, t2, m1, m2, mml, h, i, max_length, best_match) ==
    IF i >= Len(t1) THEN best_match
    ELSE IF m1[i + 1]
         THEN FindLongestFrom(t1, t2, m1, m2, mml, h, i + 1, max_length, best_match)
    ELSE LET ms == RkFindMatches(t1, t2, i, m1, m2, mml, h)
         IN  IF ms # <<>> /\ ms[1][2] > max_length
             THEN FindLongestFrom(t1, t2, m1, m2, mml, h, i + 1, ms[1][2],
                                  <<i, ms[1][1], ms[1][2]>>)
             ELSE FindLongestFrom(t1, t2, m1, m2, mml, h, i + 1, max_length, best_match)

FindLongestMatch(t1, t2, m1, m2, mml, h) ==
    FindLongestFrom(t1, t2, m1, m2, mml, h, 0, 0, <<>>)

\* marked[start + i] = True for i in range(length)
MarkRange(marked, start, length) ==
    [k \in 1..Len(marked) |->
        IF k - 1 >= start /\ k - 1 < start + length THEN TRUE ELSE marked[k]]

BestMatch == FindLongestMatch(tokens1, tokens2, marked1, marked2, min_match_length, tokhash)

GstInit ==
    /\ FuseOff /\ StructOff /\ NormOff /\ MoreOff
    /\ tokens1 \in SeqsUpTo(Tokens, MaxLen)
    /\ tokens2 \in SeqsUpTo(Tokens, MaxLen)
    /\ min_match_length \in 1..MaxMML
    /\ tokhash \in [Tokens -> HashVals]
    /\ marked1 = <<>>
    /\ marked2 = <<>>
    /\ matches = <<>>
    /\ gst_similarity = 0
    /\ gpc = "idle"

\* compute_similarity: if not tokens1 or not tokens2: return 0.0
GstEmpty ==
    /\ gpc = "idle"
    /\ tokens1 = <<>> \/ tokens2 = <<>>
    /\ gst_similarity' = 0
    /\ gpc' = "returned"
    /\ UNCHANGED <<tokens1, tokens2, min_match_length, tokhash, marked1, marked2, matches>>
    /\ UNCHANGED notGst

\* entry of _greedy_string_tiling: empty tile list, nothing marked
GstStart ==
    /\ gpc = "idle"
    /\ tokens1 # <<>> /\ tokens2 # <<>>
    /\ marked1' = [k \in 1..Len(tokens1) |-> FALSE]
    /\ marked2' = [k \in 1..Len(tokens2) |-> FALSE]
    /\ matches' = <<>>
    /\ gpc' = "loop"
    /\ UNCHANGED <<tokens1, tokens2, min_match_length, tokhash, gst_similarity>>
    /\ UNCHANGED notGst

\* one iteration of the while loop that accepts a tile
GstTile ==
    /\ gpc = "loop"
    /\ LET best_match == BestMatch
       IN  /\ best_match # <<>>
           /\ best_match[3] >= min_match_length
           /\ marked1' = MarkRange(marked1, best_match[1], best_match[3])
           /\ marked2' = MarkRange(marked2, best_match[2], best_match[3])
           /\ matches' = Append(matches, best_match)
    /\ UNCHANGED <<tokens1, tokens2, min_match_length, tokhash, gst_similarity, gpc>>
    /\ UNCHANGED notGst

\* the iteration that leaves the loop: no match, or one below the minimum
GstBreak ==
    /\ gpc = "loop"
    /\ LET best_match == BestMatch
       IN  IF best_match = <<>> THEN TRUE ELSE best_match[3] < min_match_length
    /\ gpc' = "done"
    /\ UNCHANGED <<tokens1, tokens2, min_match_length, tokhash, marked1, marked2, matches,
                   gst_similarity>>
    /\ UNCHANGED notGst

\* faulty variant: both coverages are read from the tiles' start in tokens1
ComputeCoverage_Source1(ms, total_length, source) ==
    IF total_length = 0 THEN 0
    ELSE Cardinality({i \in 0..(total_length - 1) :
            \E k \in 1..Len(ms) : i >= ms[k][1] /\ i < ms[k][1] + ms[k][3]})

\* _compute_coverage: sum(covered), the number of positions below total_length
\* that some tile covers on the given side; the caller divides by total_length
ComputeCoverage(ms, total_length, source) ==
    IF total_length = 0 THEN 0
    ELSE Cardinality({i \in 0..(total_length - 1) :
            \E k \in 1..Len(ms) :
                LET start == IF source = 1 THEN ms[k][1] ELSE ms[k][2]
                IN  i >= start /\ i < start + ms[k][3]})

\* faulty variant: the two coverages are added, not averaged
SymmetricScore_Sum(c1, n1, c2, n2) == ((c1 * n2 + c2 * n1) * 100000) \div (n1 * n2)

\* (coverage1 + coverage2) / 2.0 * 100 for coverages c1/n1 and c2/n2, in
\* fixed point (rounded down)
SymmetricScore(c1, n1, c2, n2) == ((c1 * n2 + c2 * n1) * 100000) \div (2 * n1 * n2)

\* the rest of compute_similarity once the tiling has returned
GstScore ==
    /\ gpc = "done"
    /\ gst_similarity' =
          SymmetricScore(ComputeCoverage(matches, Len(tokens1), 1), Len(tokens1),
                         ComputeCoverage(matches, Len(tokens2), 2), Len(tokens2))
    /\ gpc' = "returned"
    /\ UNCHANGED <<tokens1, tokens2, min_match_length, tokhash, marked1, marked2, matches>>
    /\ UNCHANGED notGst

\* _greedy_string_tiling as a function: the while loop from the given marks
\* and tile list to its break
RECURSIVE GreedyStringTilingFrom(_, _, _, _, _, _, _)
GreedyStringTilingFrom(t1, t2, m1, m2, mml, h, ms) ==
    LET best_match == FindLongestMatch(t1, t2, m1, m2, mml, h)
    IN  IF best_match = <<>> THEN ms
        ELSE IF best_match[3] < mml THEN ms
        ELSE GreedyStringTilingFrom(t1, t2,
                                    MarkRange(m1, best_match[1], best_match[3]),
                                    MarkRange(m2, best_match[2], best_match[3]),
                                    mml, h, Append(ms, best_match))

GreedyStringTiling(t1, t2, mml, h) ==
    GreedyStringTilingFrom(t1, t2, [k \in 1..Len(t1) |-> FALSE],
                           [k \in 1..Len(t2) |-> FALSE], mml, h, <<>>)

\* RKGSTSimilarityAnalyzer.compute_similarity as a function of the token lists
RkgstSimilarity(t1, t2, mml, h) ==
    IF t1 = <<>> \/ t2 = <<>> THEN 0
    ELSE LET ms == GreedyStringTiling(t1, t2, mml, h)
         IN  SymmetricScore(ComputeCoverage(ms, Len(t1), 1), Len(t1),
                            ComputeCoverage(ms, Len(t2), 2), Len(t2))

GstNext == GstEmpty \/ GstStart \/ GstTile \/ GstBreak \/ GstScore

GstSpec == GstInit /\ [][GstNext]_vars

\* The call is not suspended for ever: weak fairness of each of its stages.
\* For the loop, WF_vars(GstTile \/ GstBreak) is written out with
\* ENABLED <<GstTile \/ GstBreak>>_vars replaced by its value gpc = "loop":
\* an iteration either accepts a tile or breaks.
GstFair ==
    /\ WF_vars(GstEmpty \/ GstStart)
    /\ ([]<>(gpc # "loop") \/ []<><<GstTile \/ GstBreak>>_vars)
    /\ WF_vars(GstScore)

GstFairSpec == GstSpec /\ GstFair

(***************************************************************************)
(* Fusion configuration (src/config/settings.py), in 1/1000 points         *)
(***************************************************************************)
SEVERE_THRESHOLD == 90000
PARTIAL_THRESHOLD == 60000

\* SIMILARITY_WEIGHTS, in hundredths
W_lexical == 15
W_structural == 45
W_semantic == 40

\* STUDENT_SAFE_CONFIG; every amount is the configured fraction * 100 points
penalize_lexical_only == TRUE
boost_multi_signal_agreement == TRUE
lexical_only_reduction == 15000
agreement_threshold == 85000
agreement_boost == 5000
uncertainty_threshold == 5000
uncertainty_penalty == 10000

ADJ_LEXICAL_ONLY == "Reduced by 15.0% (lexical-only similarity)"
ADJ_AGREEMENT == "Boosted by 5.0% (multi-signal agreement)"
ADJ_UNCERTAINTY == "Reduced by 10.0% (signal uncertainty)"

\* signal values the model feeds in: the rule boundaries and their neighbours
SignalVals == {0, 30000, 40000, 49900, 50000, 70000, 70100, 80000,
               84900, 85000, 90000, 100000}
\* raw scores handed directly to _apply_student_safe_bias
RawVals == {0 - 20000, 0, 5000, 59999, 60000, 74999, 89999, 90000, 100000, 120000}

(***************************************************************************)
(* Fusion and bias                                                         *)
(***************************************************************************)
\* faulty variant: the structural and semantic weights are swapped
WeightedSum_Swapped(l, s, se) == (l * W_lexical + s * W_semantic + se * W_structural) \div 100

\* raw_score of compute_similarity
WeightedSum(l, s, se) == (l * W_lexical + s * W_structural + se * W_semantic) \div 100

\* faulty variant: the lexical test is inclusive
LexicalOnlyCond_Inclusive(l, s, se) == l >= 70000 /\ s < 50000 /\ se < 50000

\* rule 1: lexical > 70 and structural < 50 and semantic < 50
LexicalOnlyCond(l, s, se) == l > 70000 /\ s < 50000 /\ se < 50000

\* faulty variant: the agreement test is strict
AgreementCond_Strict(s, se) == s > agreement_threshold /\ se > agreement_threshold

\* rule 2: structural >= threshold and semantic >= threshold
AgreementCond(s, se) == s >= agreement_threshold /\ se >= agreement_threshold

Abs(x) == IF x < 0 THEN 0 - x ELSE x

\* rule 3: np.std([l, s, se]) > threshold.  np.std is the population standard
\* deviation sqrt(mean((x - mean)^2)); with d_i = 3*x_i - sum the test is
\* d_1^2 + d_2^2 + d_3^2 > 27 * threshold^2.  A deviation of 6 * threshold
\* or more decides the test by itself, which keeps the squares in 32 bits.
UncertainCond(l, s, se) ==
    LET sum == l + s + se
        d1 == Abs(3 * l - sum)
        d2 == Abs(3 * s - sum)
        d3 == Abs(3 * se - sum)
        big == 6 * uncertainty_threshold
    IN  IF d1 >= big \/ d2 >= big \/ d3 >= big THEN TRUE
        ELSE d1 * d1 + d2 * d2 + d3 * d3 > 27 * uncertainty_threshold * uncertainty_threshold

\* faulty variant: only the upper bound is enforced
Clamp_UpperOnly(x) == Min(100000, x)

\* score = max(0.0, min(100.0, score))
Clamp(x) == Max(0, Min(100000, x))

\* faulty variant: the thresholds are exclusive
ClassifySeverity_Exclusive(sc) ==
    IF sc > SEVERE_THRESHOLD THEN "severe"
    ELSE IF sc > PARTIAL_THRESHOLD THEN "partial"
    ELSE "clean"

\* _classify_severity
ClassifySeverity(sc) ==
    IF sc >= SEVERE_THRESHOLD THEN "severe"
    ELSE IF sc >= PARTIAL_THRESHOLD THEN "partial"
    ELSE "clean"

FuseInit ==
    /\ GstOff /\ StructOff /\ NormOff /\ MoreOff
    /\ lexical \in SignalVals
    /\ structural \in SignalVals
    /\ semantic \in SignalVals
    /\ raw_score = 0
    /\ score = 0
    /\ adjustments = <<>>
    /\ severity = "none"
    /\ caller = "none"
    /\ fpc = "start"

\* compute_similarity: the weighted combination, then the call of the bias step
FuseWeighted ==
    /\ fpc = "start"
    /\ raw_score' = WeightedSum(lexical, structural, semantic)
    /\ score' = raw_score'
    /\ adjustments' = <<>>
    /\ caller' = "compute_similarity"
    /\ fpc' = "rule1"
    /\ UNCHANGED <<lexical, structural, semantic, severity>>
    /\ UNCHANGED notFuse

\* _apply_student_safe_bias called with a raw score of the caller's choice
FuseDirect ==
    /\ fpc = "start"
    /\ \E r \in RawVals : raw_score' = r /\ score' = r
    /\ adjustments' = <<>>
    /\ caller' = "direct"
    /\ fpc' = "rule1"
    /\ UNCHANGED <<lexical, structural, semantic, severity>>
    /\ UNCHANGED notFuse

\* 1. penalize if only lexical similarity is high
RuleLexicalOnly ==
    /\ fpc = "rule1"
    /\ IF penalize_lexical_only /\ LexicalOnlyCond(lexical, structural, semantic)
       THEN /\ score' = score - lexical_only_reduction
            /\ adjustments' = Append(adjustments, ADJ_LEXICAL_ONLY)
       ELSE UNCHANGED <<score, adjustments>>
    /\ fpc' = "rule2"
    /\ UNCHANGED <<lexical, structural, semantic, raw_score, severity, caller>>
    /\ UNCHANGED notFuse

\* 2. boost if structural and semantic agree
RuleAgreementBoost ==
    /\ fpc = "rule2"
    /\ IF boost_multi_signal_agreement /\ AgreementCond(structural, semantic)
       THEN /\ score' = score + agreement_boost
            /\ adjustments' = Append(adjustments, ADJ_AGREEMENT)
       ELSE UNCHANGED <<score, adjustments>>
    /\ fpc' = "rule3"
    /\ UNCHANGED <<lexical, structural, semantic, raw_score, severity, caller>>
    /\ UNCHANGED notFuse

\* 3. reduce if the signals are uncertain
RuleUncertainty ==
    /\ fpc = "rule3"
    /\ IF uncertainty_threshold # 0 /\ UncertainCond(lexical, structural, semantic)
       THEN /\ score' = score - uncertainty_penalty
            /\ adjustments' = Append(adjustments, ADJ_UNCERTAINTY)
       ELSE UNCHANGED <<score, adjustments>>
    /\ fpc' = "clamp"
    /\ UNCHANGED <<lexical, structural, semantic, raw_score, severity, caller>>
    /\ UNCHANGED notFuse

\* ensure the score is in the valid range; return (score, adjustments)
FuseClamp ==
    /\ fpc = "clamp"
    /\ score' = Clamp(score)
    /\ fpc' = "classify"
    /\ UNCHANGED <<lexical, structural, semantic, raw_score, adjustments, severity, caller>>
    /\ UNCHANGED notFuse

\* severity = self._classify_severity(final_score)
FuseClassify ==
    /\ fpc = "classify"
    /\ severity' = ClassifySeverity(score)
    /\ fpc' = "done"
    /\ UNCHANGED <<lexical, structural, semantic, raw_score, score, adjustments, caller>>
    /\ UNCHANGED notFuse

FuseNext ==
    \/ FuseWeighted
    \/ FuseDirect
    \/ RuleLexicalOnly
    \/ RuleAgreementBoost
    \/ RuleUncertainty
    \/ FuseClamp
    \/ FuseClassify

FuseSpec == FuseInit /\ [][FuseNext]_vars

(***************************************************************************)
(* Structural method selection (src/config/weights.py)                     *)
(***************************************************************************)
StructuralMethod == {"TREESITTER", "AST", "RKGST", "HYBRID"}
DEFAULT_STRUCTURAL_METHOD == "TREESITTER"

\* HYBRID_WEIGHTS, in tenths
HW_treesitter == 4
HW_ast == 3
HW_rkgst == 3

\* sub-method scores the model feeds in
ScoreVals == {0, 50000, 100000}

\* StructuralSimilarity.compute_similarity: if AST / elif RKGST / else;
\* <<>> stands for a breakdown of None
StructuralCompute(m, a, r) ==
    IF m = "AST"
    THEN [score |-> a, method |-> "ast", breakdown |-> <<>>]
    ELSE IF m = "RKGST"
    THEN [score |-> r, method |-> "rkgst", breakdown |-> <<>>]
    ELSE [score |-> (a * HW_ast + r * HW_rkgst) \div 10,
          method |-> "hybrid",
          breakdown |-> [ast |-> a, rkgst |-> r]]

StructInit ==
    /\ GstOff /\ FuseOff /\ NormOff /\ MoreOff
    /\ method_arg \in StructuralMethod \cup {"None"}
    /\ method = "None"
    /\ ast_score \in ScoreVals
    /\ rkgst_score \in ScoreVals
    /\ ts_score \in ScoreVals
    /\ structural_result = <<>>
    /\ spc = "new"

\* StructuralSimilarity.__init__: self.method = method or DEFAULT_STRUCTURAL_METHOD
StructConstruct ==
    /\ spc = "new"
    /\ method' = IF method_arg = "None" THEN DEFAULT_STRUCTURAL_METHOD ELSE method_arg
    /\ spc' = "ready"
    /\ UNCHANGED <<method_arg, ast_score, rkgst_score, ts_score, structural_result>>
    /\ UNCHANGED notStruct

\* StructuralSimilarity.compute_similarity
StructCompute ==
    /\ spc = "ready"
    /\ fpc = "off"
    /\ structural_result' = StructuralCompute(method, ast_score, rkgst_score)
    /\ spc' = "done"
    /\ UNCHANGED <<method_arg, method, ast_score, rkgst_score, ts_score>>
    /\ UNCHANGED notStruct

StructNext == StructConstruct \/ StructCompute

StructSpec == StructInit /\ [][StructNext]_vars

(***************************************************************************)
(* PlagiarismScorer.compute_similarity, from the analyzers' scores on      *)
(***************************************************************************)
\* PlagiarismScorer() builds StructuralSimilarity() without a method; the
\* lexical and semantic analyzers' scores for the pair are inputs
PipeInit ==
    /\ GstOff /\ NormOff /\ MoreOff
    /\ method_arg = "None"
    /\ method = "None"
    /\ ast_score \in ScoreVals
    /\ rkgst_score \in ScoreVals
    /\ ts_score \in ScoreVals
    /\ structural_result = <<>>
    /\ spc = "new"
    /\ lexical \in ScoreVals
    /\ semantic \in ScoreVals
    /\ structural = 0 /\ raw_score = 0 /\ score = 0
    /\ adjustments = <<>> /\ severity = "none" /\ caller = "none"
    /\ fpc = "wait"

\* structural_result = self.structural_analyzer.compute_similarity(code1, code2)
\* structural_score = structural_result['score']
PipeStructural ==
    /\ spc = "ready"
    /\ fpc = "wait"
    /\ structural_result' = StructuralCompute(method, ast_score, rkgst_score)
    /\ structural' = structural_result'.score
    /\ spc' = "done"
    /\ fpc' = "start"
    /\ UNCHANGED <<method_arg, method, ast_score, rkgst_score, ts_score>>
    /\ UNCHANGED <<lexical, semantic, raw_score, score, adjustments, severity, caller>>
    /\ UNCHANGED <<gstVars, normVars, moreVars>>

PipeNext ==
    \/ StructConstruct
    \/ PipeStructural
    \/ FuseWeighted
    \/ RuleLexicalOnly
    \/ RuleAgreementBoost
    \/ RuleUncertainty
    \/ FuseClamp
    \/ FuseClassify

PipeSpec == PipeInit /\ [][PipeNext]_vars

(***************************************************************************)
(* TokenNormalizer (src/normalization/token_normalizer.py).  A code string *)
(* is a sequence of one-character strings.                                 *)
(***************************************************************************)
NL == "\n"
TAB == "\t"
BACKSLASH == "\\"
QUOTE == "\""

UpperSeq == <<"A","B","C","D","E","F","G","H","I","J","K","L","M","N","O","P","Q","R","S","T","U","V","W","X","Y","Z">>
LowerSeq == <<"a","b","c","d","e","f","g","h","i","j","k","l","m","n","o","p","q","r","s","t","u","v","w","x","y","z">>
DigitChars == {"0","1","2","3","4","5","6","7","8","9"}
LetterChars == {UpperSeq[k] : k \in 1..26} \cup {LowerSeq[k] : k \in 1..26}
IdStartChars == LetterChars \cup {"_"}
IdChars == IdStartChars \cup DigitChars
\* what \s matches among the characters of the model
SpaceChars == {" ", TAB, NL}

\* the class [%+\-*/<>=(){}\[\]:;,.] of the token pattern
SingleOps == {"%", "+", "-", "*", "/", "<", ">", "=", "(", ")", "{", "}", "[", "]",
              ":", ";", ",", "."}
\* the two-character alternatives of the token pattern
TwoCharOps == {<<"=","=">>, <<"!","=">>, <<"<","=">>, <<">","=">>, <<"+","=">>, <<"-","=">>,
               <<"*","=">>, <<"/","=">>, <<"%","=">>, <<"&","&">>, <<"|","|">>, <<"<","<">>,
               <<">",">">>}

KEYWORDS == {
    <<"i","f">>, <<"e","l","s","e">>, <<"f","o","r">>, <<"w","h","i","l","e">>,
    <<"r","e","t","u","r","n">>, <<"b","r","e","a","k">>, <<"c","o","n","t","i","n","u","e">>,
    <<"d","e","f">>, <<"i","m","p","o","r","t">>, <<"f","r","o","m">>, <<"c","l","a","s","s">>,
    <<"l","a","m","b","d","a">>, <<"e","l","i","f">>, <<"i","n">>, <<"i","s">>, <<"n","o","t">>,
    <<"a","n","d">>, <<"o","r">>, <<"t","r","y">>, <<"e","x","c","e","p","t">>,
    <<"f","i","n","a","l","l","y">>, <<"w","i","t","h">>, <<"a","s">>, <<"p","a","s","s">>,
    <<"r","a","i","s","e">>, <<"a","s","s","e","r","t">>, <<"y","i","e","l","d">>, <<"d","e","l">>,
    <<"g","l","o","b","a","l">>, <<"n","o","n","l","o","c","a","l">>, <<"p","u","b","l","i","c">>,
    <<"p","r","i","v","a","t","e">>, <<"p","r","o","t","e","c","t","e","d">>,
    <<"s","t","a","t","i","c">>, <<"v","o","i","d">>, <<"c","o","n","s","t">>,
    <<"v","i","r","t","u","a","l">>, <<"o","v","e","r","r","i","d","e">>, <<"n","e","w">>,
    <<"d","e","l","e","t","e">>, <<"t","h","i","s">>, <<"s","u","p","e","r">>,
    <<"e","x","t","e","n","d","s">>, <<"i","m","p","l","e","m","e","n","t","s">>,
    <<"i","n","t","e","r","f","a","c","e">>, <<"p","a","c","k","a","g","e">>,
    <<"t","h","r","o","w","s">>, <<"c","a","t","c","h">>, <<"s","w","i","t","c","h">>,
    <<"c","a","s","e">>, <<"d","e","f","a","u","l","t">>, <<"d","o">>, <<"g","o","t","o">>,
    <<"s","i","z","e","o","f">>, <<"t","y","p","e","d","e","f">>, <<"s","t","r","u","c","t">>,
    <<"u","n","i","o","n">>, <<"e","n","u","m">>, <<"n","a","m","e","s","p","a","c","e">>,
    <<"u","s","i","n","g">>, <<"t","e","m","p","l","a","t","e">>
}

TYPES == {
    <<"i","n","t">>, <<"f","l","o","a","t">>, <<"d","o","u","b","l","e">>, <<"c","h","a","r">>,
    <<"b","o","o","l">>, <<"v","o","i","d">>, <<"s","t","r","i","n","g">>, <<"s","t","r">>,
    <<"l","o","n","g">>, <<"s","h","o","r","t">>, <<"u","n","s","i","g","n","e","d">>,
    <<"s","i","g","n","e","d">>, <<"b","y","t","e">>, <<"l","i","s","t">>, <<"d","i","c","t">>,
    <<"s","e","t">>, <<"t","u","p","l","e">>, <<"a","r","r","a","y">>, <<"v","e","c","t","o","r">>,
    <<"m","a","p">>
}

\* str.lower() on one ASCII character
LowerChar(c) ==
    IF \E k \in 1..26 : UpperSeq[k] = c
    THEN LowerSeq[CHOOSE k \in 1..26 : UpperSeq[k] = c]
    ELSE c

ToLower(tok) == [k \in 1..Len(tok) |-> LowerChar(tok[k])]

\* number of consecutive characters of class S from position i on
RunLen(code, i, S) ==
    LET stops == {k \in i..Len(code) : code[k] \notin S}
    IN  IF stops = {} THEN Len(code) - i + 1
        ELSE (CHOOSE k \in stops : \A j \in stops : k <= j) - i

\* keep the characters of code whose position satisfies Keep
RECURSIVE FilterFrom(_, _, _)
FilterFrom(code, keep, i) ==
    IF i > Len(code) THEN <<>>
    ELSE (IF i \in keep THEN <<code[i]>> ELSE <<>>) \o FilterFrom(code, keep, i + 1)

\* code.encode("utf-8").decode("unicode_escape") on ASCII input: \n, \t, \\
\* and \" are decoded, a backslash with the line end after it disappears, a
\* backslash before a character that starts no escape stays, and a trailing
\* backslash is an error (marked "DECODE_ERROR").  The
\* inputs of the model hold no other escape (\x, \u, \N, octal, \a \b \f \r \v).
RECURSIVE DecodeFrom(_, _)
DecodeFrom(code, i) ==
    IF i > Len(code) THEN <<>>
    ELSE IF code[i] # BACKSLASH THEN <<code[i]>> \o DecodeFrom(code, i + 1)
    ELSE IF i = Len(code) THEN <<"DECODE_ERROR">>
    ELSE IF code[i + 1] = "n" THEN <<NL>> \o DecodeFrom(code, i + 2)
    ELSE IF code[i + 1] = "t" THEN <<TAB>> \o DecodeFrom(code, i + 2)
    ELSE IF code[i + 1] = BACKSLASH THEN <<BACKSLASH>> \o DecodeFrom(code, i + 2)
    ELSE IF code[i + 1] = QUOTE THEN <<QUOTE>> \o DecodeFrom(code, i + 2)
    ELSE IF code[i + 1] = NL THEN DecodeFrom(code, i + 2)
    ELSE <<BACKSLASH>> \o DecodeFrom(code, i + 1)

\* try: decode; except: pass
DecodeEscapes(code) ==
    LET d == DecodeFrom(code, 1)
    IN  IF \E k \in 1..Len(d) : d[k] = "DECODE_ERROR" THEN code ELSE d

\* re.sub(r"#.*", "", code): a character goes when a '#' precedes it on its line
RemoveHashComments(code) ==
    FilterFrom(code,
        {k \in 1..Len(code) :
            ~\E h \in 1..k : /\ code[h] = "#"
                             /\ \A m \in h..k : code[m] # NL}, 1)

\* re.sub(r"//.*", "", code)
RemoveSlashComments(code) ==
    FilterFrom(code,
        {k \in 1..Len(code) :
            ~\E h \in 1..k : /\ h + 1 <= Len(code)
                             /\ code[h] = "/" /\ code[h + 1] = "/"
                             /\ \A m \in h..k : code[m] # NL}, 1)

\* re.sub(r"/\*.*?\*/", "", code, flags=re.DOTALL): leftmost, shortest, and
\* an opener without a closer stays
RECURSIVE RemoveBlockFrom(_, _)
RemoveBlockFrom(code, i) ==
    IF i > Len(code) THEN <<>>
    ELSE LET ends == {e \in (i + 2)..(Len(code) - 1) : code[e] = "*" /\ code[e + 1] = "/"}
         IN  IF i + 1 <= Len(code) /\ code[i] = "/" /\ code[i + 1] = "*" /\ ends # {}
             THEN RemoveBlockFrom(code, (CHOOSE e \in ends : \A f \in ends : e <= f) + 2)
             ELSE <<code[i]>> \o RemoveBlockFrom(code, i + 1)

\* TokenNormalizer.remove_comments
RemoveComments(code) ==
    RemoveBlockFrom(RemoveSlashComments(RemoveHashComments(code)), 1)

\* re.sub(r"[ \t]+", " ", code)
CollapseBlanks(code) ==
    LET kept == FilterFrom(code,
                    {k \in 1..Len(code) :
                        ~(code[k] \in {" ", TAB} /\ k > 1 /\ code[k - 1] \in {" ", TAB})}, 1)
    IN  [k \in 1..Len(kept) |-> IF kept[k] = TAB THEN " " ELSE kept[k]]

\* re.sub(r"\n\s*\n+", "\n", code): from a newline through the last newline
\* of the whitespace run that follows it
RECURSIVE CollapseLinesFrom(_, _)
CollapseLinesFrom(code, i) ==
    IF i > Len(code) THEN <<>>
    ELSE IF code[i] # NL THEN <<code[i]>> \o CollapseLinesFrom(code, i + 1)
    ELSE LET run == RunLen(code, i + 1, SpaceChars)
             nls == {k \in (i + 1)..(i + run) : code[k] = NL}
         IN  IF nls = {} THEN <<NL>> \o CollapseLinesFrom(code, i + 1)
             ELSE <<NL>> \o CollapseLinesFrom(code,
                                (CHOOSE k \in nls : \A j \in nls : j <= k) + 1)

\* length of the token the pattern matches at position i, 0 when none:
\* identifier | \d+\.?\d* | two-character operator | single character
MatchLen(code, i) ==
    IF code[i] \in IdStartChars THEN 1 + RunLen(code, i + 1, IdChars)
    ELSE IF code[i] \in DigitChars
    THEN LET d1 == RunLen(code, i, DigitChars)
             dot == IF i + d1 <= Len(code) /\ code[i + d1] = "." THEN 1 ELSE 0
         IN  d1 + dot + RunLen(code, i + d1 + dot, DigitChars)
    ELSE IF i + 1 <= Len(code) /\ <<code[i], code[i + 1]>> \in TwoCharOps THEN 2
    ELSE IF code[i] \in SingleOps THEN 1
    ELSE 0

\* re.findall(token pattern, code)
RECURSIVE TokenizeFrom(_, _)
TokenizeFrom(code, i) ==
    IF i > Len(code) THEN <<>>
    ELSE LET n == MatchLen(code, i)
         IN  IF n = 0 THEN TokenizeFrom(code, i + 1)
             ELSE <<SubSeq(code, i, i + n - 1)>> \o TokenizeFrom(code, i + n)

\* re.match(r"^\d+\.?\d*$", token)
IsNumberToken(tok) ==
    /\ tok # <<>>
    /\ tok[1] \in DigitChars
    /\ LET d1 == RunLen(tok, 1, DigitChars)
           dot == IF 1 + d1 <= Len(tok) /\ tok[1 + d1] = "." THEN 1 ELSE 0
       IN  d1 + dot + RunLen(tok, 1 + d1 + dot, DigitChars) = Len(tok)

\* re.match(r"^[A-Za-z_][A-Za-z0-9_]*$", token)
IsIdentifierToken(tok) ==
    /\ tok # <<>>
    /\ tok[1] \in IdStartChars
    /\ \A k \in 2..Len(tok) : tok[k] \in IdChars

\* str(n) for n >= 0
RECURSIVE IntToChars(_)
IntToChars(n) ==
    LET d == <<"0","1","2","3","4","5","6","7","8","9">>[(n % 10) + 1]
    IN  IF n < 10 THEN <<d>> ELSE IntToChars(n \div 10) \o <<d>>

\* f"VAR{self.var_counter}"
VarLabel(n) == <<"V", "A", "R">> \o IntToChars(n)

\* faulty variant: no lookup in identifier_map, every occurrence opens a new slot
NormalizeToken_Relabel(tok, st) ==
    LET token_lower == ToLower(tok)
    IN  IF token_lower \in KEYWORDS THEN [tok |-> token_lower, st |-> st]
        ELSE IF token_lower \in TYPES THEN [tok |-> <<"T","Y","P","E">>, st |-> st]
        ELSE IF IsNumberToken(tok) THEN [tok |-> <<"N","U","M">>, st |-> st]
        ELSE IF IsIdentifierToken(tok)
        THEN LET c == st.counter + 1
                 m == [n \in DOMAIN st.map \cup {tok} |->
                           IF n = tok THEN VarLabel(c) ELSE st.map[n]]
             IN  [tok |-> VarLabel(c), st |-> [map |-> m, counter |-> c]]
        ELSE [tok |-> tok, st |-> st]

\* _normalize_token on the normalizer state st = [map, counter]; the result
\* carries the normalized token and the state after the call
NormalizeToken(tok, st) ==
    LET token_lower == ToLower(tok)
    IN  IF token_lower \in KEYWORDS THEN [tok |-> token_lower, st |-> st]
        ELSE IF token_lower \in TYPES THEN [tok |-> <<"T","Y","P","E">>, st |-> st]
        ELSE IF IsNumberToken(tok) THEN [tok |-> <<"N","U","M">>, st |-> st]
        ELSE IF IsIdentifierToken(tok)
        THEN IF tok \in DOMAIN st.map
             THEN [tok |-> st.map[tok], st |-> st]
             ELSE LET c == st.counter + 1
                      m == [n \in DOMAIN st.map \cup {tok} |->
                                IF n = tok THEN VarLabel(c) ELSE st.map[n]]
                  IN  [tok |-> VarLabel(c), st |-> [map |-> m, counter |-> c]]
        ELSE [tok |-> tok, st |-> st]

\* the loop of _normalize_to_tokens over the raw tokens; empty results are skipped
RECURSIVE NormalizeTokensFrom(_, _, _, _)
NormalizeTokensFrom(toks, k, st, acc) ==
    IF k > Len(toks) THEN [tokens |-> acc, st |-> st]
    ELSE LET r == NormalizeToken(toks[k], st)
         IN  NormalizeTokensFrom(toks, k + 1, r.st,
                                 IF r.tok # <<>> THEN Append(acc, r.tok) ELSE acc)

\* _normalize_to_tokens
NormalizeToTokens(code, st) ==
    LET decoded == DecodeEscapes(code)
        bare    == RemoveComments(decoded)
        spaced  == CollapseLinesFrom(CollapseBlanks(bare), 1)
    IN  NormalizeTokensFrom(TokenizeFrom(spaced, 1), 1, st, <<>>)

\* " ".join(tokens)
RECURSIVE JoinFrom(_, _)
JoinFrom(toks, k) ==
    IF k > Len(toks) THEN <<>>
    ELSE IF k = Len(toks) THEN toks[k]
    ELSE toks[k] \o <<" ">> \o JoinFrom(toks, k + 1)

\* faulty variant: the identifier map and the counter survive from call to call
ResetCounters_Keep(st) == st

\* reset_counters (only the identifier map and the variable counter are modelled)
ResetCounters(st) == [map |-> <<>>, counter |-> 0]

\* a value that is not a str
NonString == <<"NOT_A_STRING">>

\* what a call that raised would leave in place of a return value
Raised == <<"RAISED">>

\* faulty variant: no isinstance check; re.sub then raises TypeError on a non-string
Normalize_NoTypeCheck(code, st) ==
    IF code = NonString THEN [out |-> Raised, st |-> ResetCounters(st)]
    ELSE LET r == NormalizeToTokens(code, ResetCounters(st))
         IN  [out |-> JoinFrom(r.tokens, 1), st |-> r.st]

\* TokenNormalizer.normalize on the instance state st
Normalize(code, st) ==
    IF code = NonString THEN [out |-> <<>>, st |-> st]
    ELSE LET r == NormalizeToTokens(code, ResetCounters(st))
         IN  [out |-> JoinFrom(r.tokens, 1), st |-> r.st]

(***************************************************************************)
(* Inputs of the normalizer: a program is a short sequence of lexemes, and *)
(* a naming gives the two identifier slots their names.  Two renderings of *)
(* one program under two namings differ only by a one-to-one renaming of   *)
(* identifiers; side 2 may also carry a comment or extra whitespace.       *)
(***************************************************************************)
MaxItems == 3        \* longest program, in lexemes

ItemKinds == {"ID1", "ID2", "KW", "TYPE", "NUM", "OP", "STR"}
Names == {<<"x">>, <<"n", "2">>}
Namings == {nm \in [{"ID1", "ID2"} -> Names] : nm["ID1"] # nm["ID2"]}
Decorations == {"none", "hash", "block", "escnl"}
Programs == SeqsUpTo(ItemKinds, MaxItems)

ItemText(item, nm) ==
    CASE item = "ID1" -> nm["ID1"]
      [] item = "ID2" -> nm["ID2"]
      [] item = "KW" -> <<"i", "f">>
      [] item = "TYPE" -> <<"i", "n", "t">>
      [] item = "NUM" -> <<"7">>
      [] item = "OP" -> <<"<", "=">>
      [] item = "STR" -> <<QUOTE, "x", QUOTE>>

RECURSIVE RenderFrom(_, _, _)
RenderFrom(prog, nm, k) ==
    IF k > Len(prog) THEN <<>>
    ELSE IF k = Len(prog) THEN ItemText(prog[k], nm)
    ELSE ItemText(prog[k], nm) \o <<" ">> \o RenderFrom(prog, nm, k + 1)

Decorate(code, deco) ==
    CASE deco = "none" -> code
      [] deco = "hash" -> code \o <<" ", "#", " ", "x">>
      [] deco = "block" -> <<"/", "*", "x", "*", "/">> \o code
      [] deco = "escnl" -> <<BACKSLASH, "n">> \o code

NormInit ==
    /\ GstOff /\ FuseOff /\ StructOff /\ MoreOff
    /\ identifier_map = <<>>
    /\ var_counter = 0
    /\ \E prog \in Programs, nm1 \in Namings, nm2 \in Namings, deco \in Decorations :
          /\ code_a = RenderFrom(prog, nm1, 1)
          /\ code_b = Decorate(RenderFrom(prog, nm2, 1), deco)
    /\ norm_a = <<>>
    /\ norm_b = <<>>
    /\ renorm = <<>>
    /\ npc = "start"

NormState == [map |-> identifier_map, counter |-> var_counter]

\* code1 = normalizer.normalize(code1)
NormalizeFirst ==
    /\ npc = "start"
    /\ LET r == Normalize(code_a, NormState)
       IN  /\ norm_a' = r.out
           /\ identifier_map' = r.st.map
           /\ var_counter' = r.st.counter
    /\ npc' = "first"
    /\ UNCHANGED <<code_a, code_b, norm_b, renorm>>
    /\ UNCHANGED notNorm

\* code2 = normalizer.normalize(code2), on the same normalizer
NormalizeSecond ==
    /\ npc = "first"
    /\ LET r == Normalize(code_b, NormState)
       IN  /\ norm_b' = r.out
           /\ identifier_map' = r.st.map
           /\ var_counter' = r.st.counter
    /\ npc' = "second"
    /\ UNCHANGED <<code_a, code_b, norm_a, renorm>>
    /\ UNCHANGED notNorm

\* normalizer.normalize(normalizer.normalize(code1)): the output is normalized again
NormalizeAgain ==
    /\ npc = "second"
    /\ LET r == Normalize(norm_a, NormState)
       IN  /\ renorm' = r.out
           /\ identifier_map' = r.st.map
           /\ var_counter' = r.st.counter
    /\ npc' = "again"
    /\ UNCHANGED <<code_a, code_b, norm_a, norm_b>>
    /\ UNCHANGED notNorm

NormNext == NormalizeFirst \/ NormalizeSecond \/ NormalizeAgain

NormSpec == NormInit /\ [][NormNext]_vars

(***************************************************************************)
(* C1                                                                      *)
(***************************************************************************)
TileIn1(t) == t[1]..(t[1] + t[3] - 1)
TileIn2(t) == t[2]..(t[2] + t[3] - 1)
Claimed(marked) == Cardinality({k \in 1..Len(marked) : marked[k]})

\* C1: the tiles of _greedy_string_tiling never overlap on either side, every
\* tile lies inside both sequences, and the number of marked tokens of a side
\* is at most that side's length.
C1_TilesDisjoint ==
    gpc \in {"loop", "done"} =>
        /\ \A a, b \in 1..Len(matches) :
              a # b => /\ TileIn1(matches[a]) \cap TileIn1(matches[b]) = {}
                       /\ TileIn2(matches[a]) \cap TileIn2(matches[b]) = {}
        /\ \A a \in 1..Len(matches) :
              /\ matches[a][3] >= 1
              /\ matches[a][1] >= 0 /\ matches[a][1] + matches[a][3] <= Len(tokens1)
              /\ matches[a][2] >= 0 /\ matches[a][2] + matches[a][3] <= Len(tokens2)
        /\ Claimed(marked1) <= Len(tokens1)
        /\ Claimed(marked2) <= Len(tokens2)
        /\ Claimed(marked1) = Cardinality(UNION {TileIn1(matches[a]) : a \in 1..Len(matches)})
        /\ Claimed(marked2) = Cardinality(UNION {TileIn2(matches[a]) : a \in 1..Len(matches)})

\* two tiles were accepted from sequences with a repeated token run
C1_Witness ==
    /\ gpc = "done"
    /\ Len(matches) >= 2
    /\ Claimed(marked2) < Len(tokens2)

(***************************************************************************)
(* C2                                                                      *)
(***************************************************************************)
\* C2: the score _apply_student_safe_bias returns lies in [0,100] for every
\* triple of signals and every raw score, also when the running score has
\* left the range after the adjustments.
C2_FinalInRange ==
    fpc \in {"classify", "done"} => score >= 0 /\ score <= 100000

\* a penalty drove the running score below 0 before the clamp
C2_Witness ==
    /\ fpc = "classify"
    /\ score = 0
    /\ raw_score = 5000
    /\ adjustments # <<>>

(***************************************************************************)
(* C3                                                                      *)
(***************************************************************************)
\* C3: severity is 'severe' iff score >= 90, 'partial' iff 60 <= score < 90
\* and 'clean' iff score < 60; the lower threshold of a class is inclusive.
C3_SeverityInclusive ==
    fpc = "done" =>
        /\ severity \in {"severe", "partial", "clean"}
        /\ (severity = "severe") <=> (score >= 90000)
        /\ (severity = "partial") <=> (score >= 60000 /\ score < 90000)
        /\ (severity = "clean") <=> (score < 60000)
        /\ score = 90000 => severity = "severe"
        /\ score = 89999 => severity = "partial"
        /\ score = 60000 => severity = "partial"
        /\ score = 59999 => severity = "clean"

\* a score of exactly 90.0 was classified
C3_Witness == fpc = "done" /\ score = 90000 /\ severity = "severe"

(***************************************************************************)
(* C4                                                                      *)
(***************************************************************************)
\* population variance of three values compared with a bound, by pairwise
\* differences: sum_{i<j} (x_i - x_j)^2 = 9 * variance
PopStdExceeds(a, b, c, t) ==
    LET d1 == Abs(a - b)
        d2 == Abs(b - c)
        d3 == Abs(a - c)
    IN  IF d1 > 3 * t \/ d2 > 3 * t \/ d3 > 3 * t THEN TRUE
        ELSE d1 * d1 + d2 * d2 + d3 * d3 > 9 * t * t

\* the log after the first n rules, from the original signal values
ExpectedLog(n) ==
    (IF n >= 1 /\ lexical > 70000 /\ structural < 50000 /\ semantic < 50000
        THEN <<ADJ_LEXICAL_ONLY>> ELSE <<>>)
    \o (IF n >= 2 /\ structural >= 85000 /\ semantic >= 85000
        THEN <<ADJ_AGREEMENT>> ELSE <<>>)
    \o (IF n >= 3 /\ PopStdExceeds(lexical, structural, semantic, 5000)
        THEN <<ADJ_UNCERTAINTY>> ELSE <<>>)

InLog(e) == \E k \in 1..Len(adjustments) : adjustments[k] = e

\* C4: the adjustment log lists exactly the rules that fired, in the order
\* lexical-only penalty, agreement boost, uncertainty penalty, each condition
\* read from the original signals; for lexical=80, structural=40, semantic=30
\* the lexical-only penalty is logged and the boost is not.
C4_LogExactlyFired ==
    /\ fpc = "rule1" => adjustments = <<>>
    /\ fpc = "rule2" => adjustments = ExpectedLog(1)
    /\ fpc = "rule3" => adjustments = ExpectedLog(2)
    /\ fpc \in {"clamp", "classify", "done"} =>
          /\ adjustments = ExpectedLog(3)
          /\ (lexical = 80000 /\ structural = 40000 /\ semantic = 30000) =>
                InLog(ADJ_LEXICAL_ONLY) /\ ~InLog(ADJ_AGREEMENT)

\* the scenario lexical=80, structural=40, semantic=30 has gone through the rules
C4_Witness ==
    /\ fpc = "done"
    /\ lexical = 80000 /\ structural = 40000 /\ semantic = 30000
    /\ Len(adjustments) = 2

(***************************************************************************)
(* C5                                                                      *)
(***************************************************************************)
Ind(b) == IF b THEN 1 ELSE 0

RenamedCopyScores ==
    /\ lexical = 100000 /\ semantic = 100000
    /\ rkgst_score = 100000 /\ ts_score = 100000
    /\ ast_score \in {0, 100000}

\* C8: for two functions that differ only in identifier names,
\* compute_similarity under the default configuration returns
\* final_score >= 90 and severity 'severe'.
C8_RenamedCopySevere ==
    (fpc = "done" /\ spc = "done" /\ method_arg = "None" /\ RenamedCopyScores) =>
        score >= 90000 /\ severity = "severe"

(***************************************************************************)
(* C9                                                                      *)
(***************************************************************************)
\* C9: in hybrid mode the structural score is 0.4*node-type + 0.3*feature
\* syntax-tree + 0.3*GST, three sub-scores of 100 give 100, and the breakdown
\* reports all three sub-scores.
C9_HybridAllThree ==
    (spc = "done" /\ method = "HYBRID") =>
        /\ structural_result.score
             = (4 * ts_score + 3 * ast_score + 3 * rkgst_score) \div 10
        /\ (ts_score = 100000 /\ ast_score = 100000 /\ rkgst_score = 100000)
              => structural_result.score = 100000
        /\ structural_result.breakdown # <<>>
        /\ DOMAIN structural_result.breakdown = {"treesitter", "ast", "rkgst"}

(***************************************************************************)
(* C10                                                                     *)
(***************************************************************************)
OwnScore(m) ==
    CASE m = "AST" -> ast_score
      [] m = "RKGST" -> rkgst_score
      [] m = "TREESITTER" -> ts_score
      [] m = "HYBRID" -> structural_result.score

OwnName(m) ==
    CASE m = "AST" -> "ast"
      [] m = "RKGST" -> "rkgst"
      [] m = "TREESITTER" -> "treesitter"
      [] m = "HYBRID" -> "hybrid"

\* C10: for each of the four method tags compute_similarity returns that
\* method's own score under that method's name; no tag, the default
\* TREESITTER included, is computed as a different method.
C10_ExhaustiveMatch ==
    spc = "done" =>
        /\ structural_result.method = OwnName(method)
        /\ structural_result.score = OwnScore(method)

(***************************************************************************)
(* C6                                                                      *)
(***************************************************************************)
\* C6: normalization is idempotent, normalize(normalize(c)) = normalize(c),
\* also for outputs that hold the placeholders TYPE, NUM and VARk.
C6_Idempotent == npc = "again" => renorm = norm_a

(***************************************************************************)
(* C7                                                                      *)
(***************************************************************************)
\* C7: two code strings that differ only by a one-to-one renaming of
\* identifiers (no name a keyword or type word) and by comments or
\* whitespace normalize to the same token string.
C7_RenamingInvariant == npc \in {"second", "again"} => norm_a = norm_b

(***************************************************************************)
(* C18                                                                     *)
(***************************************************************************)
\* C18: the value RKGSTSimilarityAnalyzer.compute_similarity returns is 100
\* times the mean of the two coverages, the coverage of a side being the
\* number of its tokens claimed by tiles over its token count (here rounded
\* down to the fixed-point unit), and it is 0 when either side has no tokens.
C18_ScoreIsMeanCoverage ==
    gpc = "returned" =>
        IF tokens1 = <<>> \/ tokens2 = <<>>
        THEN gst_similarity = 0
        ELSE LET n1 == Len(tokens1)
                 n2 == Len(tokens2)
                 twiceMean == Claimed(marked1) * n2 + Claimed(marked2) * n1
             IN  /\ gst_similarity * (2 * n1 * n2) <= twiceMean * 100000
                 /\ twiceMean * 100000 < (gst_similarity + 1) * (2 * n1 * n2)

\* a score strictly between 0 and 100 from sides of different length whose
\* tile starts at different positions
C18_Witness ==
    /\ gpc = "returned"
    /\ Len(tokens1) # Len(tokens2)
    /\ matches # <<>>
    /\ matches[1][1] # matches[1][2]
    /\ gst_similarity > 0 /\ gst_similarity < 100000

(***************************************************************************)
(* ASTSimilarityAnalyzer: the feature syntax-tree method.  A parsed side   *)
(* is given by the nodes ast.walk yields, in order; a node carries its     *)
(* type name and, for a Call whose func is a Name, the name called.        *)
(* ast.parse can also fail: with SyntaxError, or with another exception    *)
(* (RecursionError on an expression nested a few thousand levels deep).    *)
(***************************************************************************)
MaxNodes == 2        \* nodes of a tree besides its Module root

\* AST_FEATURE_WEIGHTS, in hundredths
AFW_tree_structure == 40
AFW_control_flow == 30
AFW_function_calls == 20
AFW_data_flow == 10

ModuleNode == [type |-> "Module", func |-> ""]
AstNodes ==
    {[type |-> t, func |-> ""] : t \in {"If", "For", "Name"}}
        \cup {[type |-> "Call", func |-> f] : f \in {"f", "g", ""}}
AstWalks == {<<ModuleNode>> \o w : w \in SeqsUpTo(AstNodes, MaxNodes)}
ParseOutcomes ==
    {[status |-> "ok", walk |-> w] : w \in AstWalks}
        \cup {[status |-> e, walk |-> <<>>] : e \in {"SyntaxError", "RecursionError"}}

ControlFlowTypes == {"If", "For", "While", "With"}

\* the node types of a walk, in order
RECURSIVE TypesOf(_)
TypesOf(walk) ==
    IF walk = <<>> THEN <<>> ELSE <<walk[1].type>> \o TypesOf(Tail(walk))

\* _extract_features: control_flow, function_calls and tree_fingerprint
RECURSIVE ControlFlowOf(_)
ControlFlowOf(walk) ==
    IF walk = <<>> THEN <<>>
    ELSE (IF walk[1].type \in ControlFlowTypes THEN <<walk[1].type>> ELSE <<>>)
            \o ControlFlowOf(Tail(walk))

\* faulty variant: the fingerprint is appended in an else branch, so control
\* flow nodes and calls are missing from it
ExtractFeatures_ElseBranch(walk) ==
    [control_flow |-> ControlFlowOf(walk),
     function_calls |-> {walk[k].func : k \in {i \in 1..Len(walk) :
                            walk[i].type = "Call" /\ walk[i].func # ""}},
     tree_fingerprint |-> TypesOf(SelectSeq(walk,
                            LAMBDA n : n.type \notin ControlFlowTypes \cup {"Call"}))]

ExtractFeatures(walk) ==
    [control_flow |-> ControlFlowOf(walk),
     function_calls |-> {walk[k].func : k \in {i \in 1..Len(walk) :
                            walk[i].type = "Call" /\ walk[i].func # ""}},
     tree_fingerprint |-> TypesOf(walk)]

\* _lcs_length: dp[m][n] of the longest-common-subsequence table
RECURSIVE LcsTable(_, _, _, _)
LcsTable(seq1, seq2, i, j) ==
    IF i = 0 \/ j = 0 THEN 0
    ELSE IF seq1[i] = seq2[j] THEN LcsTable(seq1, seq2, i - 1, j - 1) + 1
    ELSE Max(LcsTable(seq1, seq2, i - 1, j), LcsTable(seq1, seq2, i, j - 1))

LcsLength(seq1, seq2) == LcsTable(seq1, seq2, Len(seq1), Len(seq2))

\* a sub-score 0.0 .. 1.0 is kept in units of 1/100000
ONE == 100000

\* _sequence_similarity
SequenceSimilarity(seq1, seq2) ==
    IF seq1 = <<>> \/ seq2 = <<>> THEN 0
    ELSE (LcsLength(seq1, seq2) * ONE) \div Max(Len(seq1), Len(seq2))

\* _tree_edit_distance: the node types of both walks compared by LCS
TreeEditDistance(walk1, walk2) == SequenceSimilarity(TypesOf(walk1), TypesOf(walk2))

\* faulty variant: no rule for empty control-flow lists
ControlFlowSimilarity_NoEmptyRule(f1, f2) ==
    SequenceSimilarity(f1.control_flow, f2.control_flow)

\* _control_flow_similarity
ControlFlowSimilarity(f1, f2) ==
    IF f1.control_flow = <<>> /\ f2.control_flow = <<>> THEN ONE
    ELSE IF f1.control_flow = <<>> \/ f2.control_flow = <<>> THEN 0
    ELSE SequenceSimilarity(f1.control_flow, f2.control_flow)

\* _function_call_similarity
FunctionCallSimilarity(f1, f2) ==
    LET calls1 == f1.function_calls
        calls2 == f2.function_calls
    IN  IF calls1 = {} /\ calls2 = {} THEN ONE
        ELSE IF calls1 = {} \/ calls2 = {} THEN 0
        ELSE (Cardinality(calls1 \cap calls2) * ONE) \div Cardinality(calls1 \cup calls2)

\* _data_flow_similarity
DataFlowSimilarity(f1, f2) == SequenceSimilarity(f1.tree_fingerprint, f2.tree_fingerprint)

\* the weighted combination of compute_similarity, times 100
AstWeighted(walk1, walk2) ==
    LET features1 == ExtractFeatures(walk1)
        features2 == ExtractFeatures(walk2)
    IN  (TreeEditDistance(walk1, walk2) * AFW_tree_structure
            + ControlFlowSimilarity(features1, features2) * AFW_control_flow
            + FunctionCallSimilarity(features1, features2) * AFW_function_calls
            + DataFlowSimilarity(features1, features2) * AFW_data_flow) \div 100

\* ASTSimilarityAnalyzer.compute_similarity: code1 is parsed first, then
\* code2; only SyntaxError is caught, any other exception leaves the call
AstComputeSimilarity(t1, t2) ==
    IF t1.status = "SyntaxError" THEN [raised |-> "none", score |-> 0]
    ELSE IF t1.status # "ok" THEN [raised |-> t1.status, score |-> 0]
    ELSE IF t2.status = "SyntaxError" THEN [raised |-> "none", score |-> 0]
    ELSE IF t2.status # "ok" THEN [raised |-> t2.status, score |-> 0]
    ELSE [raised |-> "none", score |-> AstWeighted(t1.walk, t2.walk)]

AstInit ==
    /\ GstOff /\ FuseOff /\ StructOff /\ NormOff
    /\ CallOff /\ TsOff /\ PyOff /\ CfgOff /\ BatchOff /\ CacheOff
    /\ tree1 \in ParseOutcomes
    /\ tree2 \in ParseOutcomes
    /\ ast_similarity = <<>>
    /\ apc = "call"

AstCompute ==
    /\ apc = "call"
    /\ ast_similarity' = AstComputeSimilarity(tree1, tree2)
    /\ apc' = "done"
    /\ UNCHANGED <<tree1, tree2>>
    /\ UNCHANGED notAst

AstNext == AstCompute

AstSpec == AstInit /\ [][AstNext]_vars

(***************************************************************************)
(* C13                                                                     *)
(***************************************************************************)
\* C13: when ast.parse fails on either code string, ASTSimilarityAnalyzer
\* .compute_similarity returns exactly 0 and raises nothing, whichever side
\* failed and whatever the other side holds.
C13_ParseFailureIsZero ==
    apc = "done" /\ (tree1.status # "ok" \/ tree2.status # "ok") =>
        ast_similarity = [raised |-> "none", score |-> 0]

(***************************************************************************)
(* Batch runs: PlagiarismScorer.analyze_all and the pairwise loop of       *)
(* app.py.  Submissions are numbered 0 .. nsubs-1 and a submission's id is *)
(* its number.  One PlagiarismScorer.compute_similarity call either        *)
(* returns a result (a sub-method that caught its own failure has          *)
(* contributed 0) or raises: the feature syntax-tree analyzer, called in   *)
(* every structural mode but RKGST, lets every exception but SyntaxError   *)
(* through, and nothing between it and the loops catches one.              *)
(***************************************************************************)
MaxSubs == 3         \* largest batch

PairScores == {0, 70000}     \* final_score values a returned result may carry
PairFailures == {"none", "SyntaxError", "EmbeddingError", "RecursionError"}

\* does a failure inside one compute_similarity call leave the call as an
\* exception?  SyntaxError is caught by ASTSimilarityAnalyzer, an embedding
\* error by SemanticSimilarity._compute_embedding_similarity
Propagates(failure) == failure \notin {"none", "SyntaxError", "EmbeddingError"}

BatchInit ==
    /\ GstOff /\ FuseOff /\ StructOff /\ NormOff
    /\ CallOff /\ AstOff /\ TsOff /\ PyOff /\ CfgOff /\ CacheOff
    /\ driver \in {"analyze_all", "app"}
    /\ nsubs \in 2..MaxSubs
    /\ bi = 0
    /\ bj = IF driver = "app" THEN 1 ELSE 0
    /\ computed = <<>>
    /\ max_similarity = 0
    /\ most_similar_id = "None"
    /\ results = <<>>
    /\ bpc = "loop"

\* analyze_all, inner loop: if i == j: continue
AnalyzeAllSkip ==
    /\ bpc = "loop" /\ driver = "analyze_all"
    /\ bi < nsubs /\ bj < nsubs /\ bi = bj
    /\ bj' = bj + 1
    /\ UNCHANGED <<driver, nsubs, bi, computed, max_similarity, most_similar_id, results, bpc>>
    /\ UNCHANGED notBatch

\* analyze_all, inner loop: one compute_similarity call that returns
AnalyzeAllPair ==
    /\ bpc = "loop" /\ driver = "analyze_all"
    /\ bi < nsubs /\ bj < nsubs /\ bi # bj
    /\ \E failure \in PairFailures, final_score \in PairScores :
          /\ ~Propagates(failure)
          /\ IF final_score > max_similarity
             THEN /\ max_similarity' = final_score
                  /\ most_similar_id' = bj
             ELSE UNCHANGED <<max_similarity, most_similar_id>>
    /\ computed' = Append(computed, <<bi, bj>>)
    /\ bj' = bj + 1
    /\ UNCHANGED <<driver, nsubs, bi, results, bpc>>
    /\ UNCHANGED notBatch

\* analyze_all, inner loop: the compute_similarity call raises; analyze_all
\* has no handler, the exception leaves it
AnalyzeAllRaise ==
    /\ bpc = "loop" /\ driver = "analyze_all"
    /\ bi < nsubs /\ bj < nsubs /\ bi # bj
    /\ \E failure \in PairFailures : Propagates(failure)
    /\ computed' = Append(computed, <<bi, bj>>)
    /\ bpc' = "aborted"
    /\ UNCHANGED <<driver, nsubs, bi, bj, max_similarity, most_similar_id, results>>
    /\ UNCHANGED notBatch

\* analyze_all, end of the inner loop: one row for submission i, then the
\* next i starts with max_similarity = 0.0 and most_similar_id = None
AnalyzeAllRow ==
    /\ bpc = "loop" /\ driver = "analyze_all"
    /\ bi < nsubs /\ bj = nsubs
    /\ results' = Append(results, [submission_id |-> bi,
                                   similarity_score |-> max_similarity,
                                   most_similar_to |-> most_similar_id])
    /\ bi' = bi + 1
    /\ bj' = 0
    /\ max_similarity' = 0
    /\ most_similar_id' = "None"
    /\ UNCHANGED <<driver, nsubs, computed, bpc>>
    /\ UNCHANGED notBatch

\* analyze_all: return results
AnalyzeAllReturn ==
    /\ bpc = "loop" /\ driver = "analyze_all"
    /\ bi = nsubs
    /\ bpc' = "done"
    /\ UNCHANGED <<driver, nsubs, bi, bj, computed, max_similarity, most_similar_id, results>>
    /\ UNCHANGED notBatch

\* the successor of (i, j) in combinations(range(n), 2)
NextCombination(i, j, n) == IF j + 1 < n THEN <<i, j + 1>> ELSE <<i + 1, i + 2>>

\* app.py: one iteration of the loop over combinations, the call returns
AppPair ==
    /\ bpc = "loop" /\ driver = "app"
    /\ bj < nsubs
    /\ \E failure \in PairFailures, final_score \in PairScores :
          /\ ~Propagates(failure)
          /\ results' = Append(results, [Index_i |-> bi, Index_j |-> bj,
                                         Overall |-> final_score])
    /\ computed' = Append(computed, <<bi, bj>>)
    /\ bi' = NextCombination(bi, bj, nsubs)[1]
    /\ bj' = NextCombination(bi, bj, nsubs)[2]
    /\ UNCHANGED <<driver, nsubs, max_similarity, most_similar_id, bpc>>
    /\ UNCHANGED notBatch

\* app.py: the call raises; the except clause around the whole analysis
\* reports the error and no result table is stored
AppRaise ==
    /\ bpc = "loop" /\ driver = "app"
    /\ bj < nsubs
    /\ \E failure \in PairFailures : Propagates(failure)
    /\ computed' = Append(computed, <<bi, bj>>)
    /\ results' = <<>>
    /\ bpc' = "aborted"
    /\ UNCHANGED <<driver, nsubs, bi, bj, max_similarity, most_similar_id>>
    /\ UNCHANGED notBatch

\* the orders sort_values('Overall_%', ascending=False) may leave the rows
\* in (the default sort is not stable, so ties come in any order)
SortedDescending(rows) ==
    {[k \in 1..Len(rows) |-> rows[p[k]]] :
        p \in {q \in [1..Len(rows) -> 1..Len(rows)] :
                 /\ \A a, b \in 1..Len(rows) : a # b => q[a] # q[b]
                 /\ \A a, b \in 1..Len(rows) :
                       a < b => rows[q[a]].Overall >= rows[q[b]].Overall}}

\* app.py: after the loop the rows become the sorted result table
AppFinish ==
    /\ bpc = "loop" /\ driver = "app"
    /\ bj >= nsubs
    /\ results' \in SortedDescending(results)
    /\ bpc' = "done"
    /\ UNCHANGED <<driver, nsubs, bi, bj, computed, max_similarity, most_similar_id>>
    /\ UNCHANGED notBatch

BatchNext ==
    \/ AnalyzeAllSkip \/ AnalyzeAllPair \/ AnalyzeAllRaise \/ AnalyzeAllRow
    \/ AnalyzeAllReturn \/ AppPair \/ AppRaise \/ AppFinish

BatchSpec == BatchInit /\ [][BatchNext]_vars

(***************************************************************************)
(* C11                                                                     *)
(***************************************************************************)
\* how many compute_similarity calls were made for the unordered pair {a, b}
TimesComputed(a, b) ==
    Cardinality({k \in 1..Len(computed) : computed[k] \in {<<a, b>>, <<b, a>>}})

\* C11: a completed all-pairs run over N submissions has computed every
\* unordered pair of distinct submissions exactly once and holds exactly
\* N*(N-1)/2 result rows.
C11_EachPairOnce ==
    bpc = "done" =>
        /\ Len(results) = (nsubs * (nsubs - 1)) \div 2
        /\ \A a, b \in 0..(nsubs - 1) : a < b => TimesComputed(a, b) = 1

(***************************************************************************)
(* C12                                                                     *)
(***************************************************************************)
\* C12: a failure while one pair is computed never aborts the batch.
C12_FailureNeverAborts == bpc # "aborted"

(***************************************************************************)
(* Configuration load: config/settings.py and config/weights.py check      *)
(* their weight dictionaries with assert statements at module top level,   *)
(* which run once, when the module is first imported.  Weights are in      *)
(* thousandths here.  The interpreter runs with assert statements enabled  *)
(* (its default mode).                                                     *)
(***************************************************************************)
MaxCompute == 2      \* compute_similarity calls followed after the load

WeightGroups == {"SIMILARITY_WEIGHTS", "HYBRID_WEIGHTS", "AST_FEATURE_WEIGHTS"}
ConfigModules == {"settings", "weights"}

\* the dictionaries of the repository
DefaultWeights(g) ==
    CASE g = "SIMILARITY_WEIGHTS" -> <<W_lexical * 10, W_structural * 10, W_semantic * 10>>
      [] g = "HYBRID_WEIGHTS" -> <<HW_treesitter * 100, HW_ast * 100, HW_rkgst * 100>>
      [] g = "AST_FEATURE_WEIGHTS" ->
            <<AFW_tree_structure * 10, AFW_control_flow * 10,
              AFW_function_calls * 10, AFW_data_flow * 10>>

\* edits of a dictionary: its last weight moved by this many thousandths
WeightEdits == {-10, -9, 0, 9, 10}

EditedWeights(g, d) ==
    [k \in 1..Len(DefaultWeights(g)) |->
        IF k = Len(DefaultWeights(g)) THEN DefaultWeights(g)[k] + d ELSE DefaultWeights(g)[k]]

RECURSIVE SumValues(_)
SumValues(ws) == IF ws = <<>> THEN 0 ELSE Head(ws) + SumValues(Tail(ws))

\* faulty variant: a sum exactly 0.01 away from 1.0 passes
SumsToOne_Inclusive(ws) == Abs(SumValues(ws) - 1000) <= 10

\* abs(sum(WEIGHTS.values()) - 1.0) < 0.01
SumsToOne(ws) == Abs(SumValues(ws) - 1000) < 10

CfgInit ==
    /\ GstOff /\ FuseOff /\ StructOff /\ NormOff
    /\ CallOff /\ AstOff /\ TsOff /\ PyOff /\ BatchOff /\ CacheOff
    /\ weight_groups \in {[g \in WeightGroups |-> EditedWeights(g, e[g])] :
                             e \in [WeightGroups -> WeightEdits]}
    /\ imported = {}
    /\ validations = [g \in WeightGroups |-> 0]
    /\ ncompute = 0
    /\ cpc = "loading"

\* first import of config/settings.py: the assert on SIMILARITY_WEIGHTS
ImportSettings ==
    /\ cpc = "loading"
    /\ "settings" \notin imported
    /\ validations' = [validations EXCEPT !["SIMILARITY_WEIGHTS"] = @ + 1]
    /\ IF SumsToOne(weight_groups["SIMILARITY_WEIGHTS"])
       THEN /\ imported' = imported \cup {"settings"}
            /\ cpc' = IF imported' = ConfigModules THEN "ready" ELSE "loading"
       ELSE /\ imported' = imported
            /\ cpc' = "fatal"
    /\ UNCHANGED <<weight_groups, ncompute>>
    /\ UNCHANGED notCfg

\* first import of config/weights.py: the assert on HYBRID_WEIGHTS, then
\* the assert on AST_FEATURE_WEIGHTS
ImportWeights ==
    /\ cpc = "loading"
    /\ "weights" \notin imported
    /\ IF ~SumsToOne(weight_groups["HYBRID_WEIGHTS"])
       THEN /\ validations' = [validations EXCEPT !["HYBRID_WEIGHTS"] = @ + 1]
            /\ imported' = imported
            /\ cpc' = "fatal"
       ELSE /\ validations' = [validations EXCEPT !["HYBRID_WEIGHTS"] = @ + 1,
                                                   !["AST_FEATURE_WEIGHTS"] = @ + 1]
            /\ IF SumsToOne(weight_groups["AST_FEATURE_WEIGHTS"])
               THEN /\ imported' = imported \cup {"weights"}
                    /\ cpc' = IF imported' = ConfigModules THEN "ready" ELSE "loading"
               ELSE /\ imported' = imported
                    /\ cpc' = "fatal"
    /\ UNCHANGED <<weight_groups, ncompute>>
    /\ UNCHANGED notCfg

\* one PlagiarismScorer.compute_similarity call: the weights are read, not checked
ConfiguredCompute ==
    /\ cpc = "ready"
    /\ ncompute < MaxCompute
    /\ ncompute' = ncompute + 1
    /\ UNCHANGED <<weight_groups, imported, validations, cpc>>
    /\ UNCHANGED notCfg

CfgNext == ImportSettings \/ ImportWeights \/ ConfiguredCompute

CfgSpec == CfgInit /\ [][CfgNext]_vars

(***************************************************************************)
(* C14                                                                     *)
(***************************************************************************)
\* C14: each weight group is checked at most once, at load; the load
\* completes only if every group was checked exactly once and sums to 1.0
\* with an error below 0.01; the load fails fatally exactly on a checked group
\* that is 0.01 or more away; and calls served after the load check nothing.
C14_WeightsCheckedOnceAtLoad ==
    /\ \A g \in WeightGroups : validations[g] <= 1
    /\ cpc = "ready" =>
          \A g \in WeightGroups :
              /\ validations[g] = 1
              /\ Abs(SumValues(weight_groups[g]) - 1000) < 10
    /\ cpc = "fatal" =>
          \E g \in WeightGroups :
              /\ validations[g] = 1
              /\ Abs(SumValues(weight_groups[g]) - 1000) >= 10
    /\ (\E g \in WeightGroups : validations[g] = 1
            /\ Abs(SumValues(weight_groups[g]) - 1000) >= 10) => cpc = "fatal"
    /\ ncompute > 0 => cpc = "ready"

\* a configuration 0.009 off in one group has loaded and served calls
C14_Witness ==
    /\ cpc = "ready"
    /\ ncompute = MaxCompute
    /\ SumValues(weight_groups["HYBRID_WEIGHTS"]) = 1009
    /\ SumValues(weight_groups["SIMILARITY_WEIGHTS"]) = 1000

(***************************************************************************)
(* A TokenNormalizer instance serving a sequence of normalize() calls with *)
(* unrelated arguments, among them values that are not strings, the empty  *)
(* string and a string whose escape decoding fails.                        *)
(***************************************************************************)
MaxCalls == 2        \* calls made on one instance
MaxCallItems == 2    \* longest argument, in lexemes

CallItemKinds == {"ID1", "ID2", "KW", "NUM"}
CallInputs ==
    {RenderFrom(prog, nm, 1) : prog \in SeqsUpTo(CallItemKinds, MaxCallItems), nm \in Namings}
        \cup {NonString, <<"x", BACKSLASH>>, <<" ", NL>>}

CallInit ==
    /\ GstOff /\ FuseOff /\ StructOff
    /\ AstOff /\ TsOff /\ PyOff /\ CfgOff /\ BatchOff /\ CacheOff
    /\ identifier_map = <<>>
    /\ var_counter = 0
    /\ code_a = <<>> /\ norm_a = <<>>
    /\ code_b = <<>> /\ norm_b = <<>> /\ renorm = <<>>
    /\ npc = "calls"
    /\ ncalls = 0
    /\ prev_map = <<>>

\* normalizer.normalize(code) for any argument
NormalizeCall ==
    /\ npc = "calls"
    /\ ncalls < MaxCalls
    /\ \E code \in CallInputs :
          LET r == Normalize(code, NormState)
          IN  /\ code_a' = code
              /\ norm_a' = r.out
              /\ identifier_map' = r.st.map
              /\ var_counter' = r.st.counter
    /\ prev_map' = identifier_map
    /\ ncalls' = ncalls + 1
    /\ UNCHANGED <<code_b, norm_b, renorm, npc>>
    /\ UNCHANGED notCall

CallNext == NormalizeCall

CallSpec == CallInit /\ [][CallNext]_vars

(***************************************************************************)
(* C15                                                                     *)
(***************************************************************************)
FreshState == [map |-> <<>>, counter |-> 0]

\* C15: whatever calls an instance has served, the output of a normalize()
\* call equals the output a freshly constructed normalizer gives for the
\* same argument.
C15_SlotMapPerCall ==
    npc = "calls" /\ ncalls > 0 => norm_a = Normalize(code_a, FreshState).out

\* a later call met the labels of an earlier one and gave one of those
\* identifiers another label
C15_Witness ==
    /\ npc = "calls" /\ ncalls >= 2
    /\ \E id \in DOMAIN prev_map :
          /\ id \in DOMAIN identifier_map
          /\ identifier_map[id] # prev_map[id]

(***************************************************************************)
(* C17                                                                     *)
(***************************************************************************)
\* C17: normalize() returns the empty string for an argument that is not a
\* string and for the empty string, and for every string it returns a string
\* and does not raise.
C17_EmptyOnNonString ==
    npc = "calls" /\ ncalls > 0 =>
        /\ code_a \in {NonString, <<>>} => norm_a = <<>>
        /\ norm_a \notin {NonString, Raised}
        /\ \A k \in 1..Len(norm_a) : norm_a[k] # "DECODE_ERROR"

\* a non-string argument handed to an instance that still holds the labels
\* of an earlier call
C17_Witness ==
    /\ npc = "calls" /\ ncalls >= 2
    /\ code_a = NonString
    /\ norm_a = <<>>
    /\ identifier_map # <<>>

(***************************************************************************)
(* PythonNormalizer.normalize.  Arguments are strings over a small         *)
(* alphabet: an opening parenthesis (never closed, so a syntax error), the *)
(* letter x, the comment sign, a double quote, a line end, and DEEP, which *)
(* stands for the text "+1+1+...+1" with some thousands of terms: valid    *)
(* syntax on which ast.parse raises RecursionError.                        *)
(***************************************************************************)
MaxPyLen == 3        \* longest argument, in characters

DEEP == "+1+1+..."
PyChars == {"(", "x", "#", QUOTE, NL, DEEP}
PyInputs == SeqsUpTo(PyChars, MaxPyLen)

\* position of the first line end at or after i, Len + 1 when there is none
RECURSIVE LineEnd(_, _)
LineEnd(text, i) ==
    IF i > Len(text) \/ text[i] = NL THEN i ELSE LineEnd(text, i + 1)

\* the loop of remove_comments over the characters of one line, from
\* position i (1-based) on: a quote not preceded by a backslash opens a
\* string or closes the one opened with the same quote, and the first
\* comment sign outside a string ends the line
RECURSIVE CleanLineFrom(_, _, _, _)
CleanLineFrom(line, i, in_string, quote_char) ==
    IF i > Len(line) THEN <<>>
    ELSE LET char == line[i]
             isQuote == char \in {QUOTE, "'"} /\ (i = 1 \/ line[i - 1] # BACKSLASH)
             opens == isQuote /\ ~in_string
             closes == isQuote /\ in_string /\ char = quote_char
             in_string2 == IF opens THEN TRUE ELSE IF closes THEN FALSE ELSE in_string
             quote_char2 == IF opens THEN char ELSE IF closes THEN "None" ELSE quote_char
         IN  IF char = "#" /\ ~in_string2 THEN <<>>
             ELSE <<char>> \o CleanLineFrom(line, i + 1, in_string2, quote_char2)

\* code.split('\n'), each line cleaned, '\n'.join(lines)
RECURSIVE StripLineComments(_, _)
StripLineComments(text, i) ==
    LET e == LineEnd(text, i)
        line == SubSeq(text, i, e - 1)
        cleaned == IF \E k \in 1..Len(line) : line[k] = "#"
                   THEN CleanLineFrom(line, 1, FALSE, "None") ELSE line
    IN  IF e > Len(text) THEN cleaned
        ELSE cleaned \o <<NL>> \o StripLineComments(text, e + 1)

\* first position k >= i where three quotes start, 0 when there is none
RECURSIVE TripleQuoteAt(_, _)
TripleQuoteAt(text, i) ==
    IF i + 2 > Len(text) THEN 0
    ELSE IF text[i] = QUOTE /\ text[i + 1] = QUOTE /\ text[i + 2] = QUOTE THEN i
    ELSE TripleQuoteAt(text, i + 1)

\* first position k >= i of a quote on the same line, 0 when there is none
RECURSIVE QuoteAt(_, _)
QuoteAt(text, i) ==
    IF i > Len(text) \/ text[i] = NL THEN 0
    ELSE IF text[i] = QUOTE THEN i
    ELSE QuoteAt(text, i + 1)

\* does ast.parse accept the text as syntax?  prev is what the logical line
\* holds so far: "start", "name", "string" or "number"
RECURSIVE SyntaxOk(_, _, _)
SyntaxOk(text, i, prev) ==
    IF i > Len(text) THEN TRUE
    ELSE CASE text[i] = NL -> SyntaxOk(text, i + 1, "start")
           [] text[i] = "#" -> SyntaxOk(text, LineEnd(text, i), prev)
           [] text[i] = "(" -> FALSE
           [] text[i] = "x" ->
                IF prev \in {"string", "number"} THEN FALSE
                ELSE SyntaxOk(text, i + 1, "name")
           [] text[i] = DEEP -> SyntaxOk(text, i + 1, "number")
           [] text[i] = QUOTE ->
                IF prev \in {"name", "number"} THEN FALSE
                ELSE IF TripleQuoteAt(text, i) = i
                THEN LET k == TripleQuoteAt(text, i + 3)
                     IN  IF k = 0 THEN FALSE ELSE SyntaxOk(text, k + 3, "string")
                ELSE LET k == QuoteAt(text, i + 1)
                     IN  IF k = 0 THEN FALSE ELSE SyntaxOk(text, k + 1, "string")

\* does the text hold DEEP outside comments and strings?
RECURSIVE HasDeep(_, _)
HasDeep(text, i) ==
    IF i > Len(text) THEN FALSE
    ELSE CASE text[i] = "#" -> HasDeep(text, LineEnd(text, i))
           [] text[i] = DEEP -> TRUE
           [] text[i] = QUOTE ->
                IF TripleQuoteAt(text, i) = i
                THEN HasDeep(text, TripleQuoteAt(text, i + 3) + 3)
                ELSE HasDeep(text, QuoteAt(text, i + 1) + 1)
           [] OTHER -> HasDeep(text, i + 1)

\* ast.parse(text): "ok", or the exception it raises
AstParse(text) ==
    IF ~SyntaxOk(text, 1, "start") THEN "SyntaxError"
    ELSE IF HasDeep(text, 1) THEN "RecursionError"
    ELSE "ok"

\* the source astor.to_source regenerates from a tree (its text is not modelled)
AstorSource == <<"ASTOR_SOURCE">>

\* remove_comments: the line comments go; the docstrings go only if the
\* result parses (try: ... except: pass)
PyRemoveComments(text) ==
    LET stripped == StripLineComments(text, 1)
    IN  IF AstParse(stripped) = "ok" THEN AstorSource ELSE stripped

\* PythonNormalizer.normalize with the default configuration
PyNormalize(text) ==
    LET code == PyRemoveComments(text)
        parsed == IF code = AstorSource THEN "ok" ELSE AstParse(code)
    IN  IF parsed = "ok" THEN [raised |-> "none", out |-> AstorSource]
        ELSE IF parsed = "SyntaxError" THEN [raised |-> "none", out |-> code]
        ELSE [raised |-> parsed, out |-> <<>>]

PyInit ==
    /\ GstOff /\ FuseOff /\ StructOff /\ NormOff
    /\ CallOff /\ AstOff /\ TsOff /\ CfgOff /\ BatchOff /\ CacheOff
    /\ py_code \in PyInputs
    /\ py_result = <<>>
    /\ ppc = "call"

PyNormalizeCall ==
    /\ ppc = "call"
    /\ py_result' = PyNormalize(py_code)
    /\ ppc' = "done"
    /\ UNCHANGED py_code
    /\ UNCHANGED notPy

PyNext == PyNormalizeCall

PySpec == PyInit /\ [][PyNext]_vars

MaxTsNodes == 3      \* nodes of a parse tree

SUPPORTED_LANGUAGES ==
    [l \in {"python", "java", "cpp", "c++", "c"} |-> IF l = "c++" THEN "cpp" ELSE l]

TsLanguageNames == {"python", " Python ", "cobol"}
TsLanguages == [name : TsLanguageNames, grammar_loads : BOOLEAN]

TsLabels == {"module", "call", "ERROR"}
TsCodes ==
    {[kind |-> k, raises |-> FALSE, nodes |-> <<>>] : k \in {"nonstring", "empty", "blank"}}
        \cup {[kind |-> "text", raises |-> TRUE, nodes |-> <<>>]}
        \cup {[kind |-> "text", raises |-> FALSE, nodes |-> n] :
                n \in SeqsUpTo(TsLabels, MaxTsNodes) \ {<<>>}}

\* str(language).strip().lower() on the language names of the model
StripLower(name) == IF name = " Python " THEN "python" ELSE name

\* _get_ts_language: None for an unsupported language or a grammar that
\* fails to load
GetTsLanguage(language) ==
    LET lang == StripLower(language.name)
    IN  IF lang \notin DOMAIN SUPPORTED_LANGUAGES THEN "None"
        ELSE IF ~language.grammar_loads THEN "None"
        ELSE SUPPORTED_LANGUAGES[lang]

\* _get_parser: None when there is no language object
GetParser(language) ==
    IF GetTsLanguage(language) = "None" THEN "None" ELSE <<"Parser", GetTsLanguage(language)>>

\* _clean_code gives "" for a non-string, and strip() empties a blank string
CleanCodeIsEmpty(code) == code.kind \in {"nonstring", "empty", "blank"}

\* faulty variant: ERROR nodes are kept in the list
ExtractAstNodeTypes_KeepErrors(code, language) ==
    IF GetParser(language) = "None" THEN <<>>
    ELSE IF CleanCodeIsEmpty(code) THEN <<>>
    ELSE IF code.raises THEN <<>>
    ELSE IF code.nodes[1] = "ERROR" THEN <<>>
    ELSE code.nodes

\* extract_ast_node_types
ExtractAstNodeTypes(code, language) ==
    IF GetParser(language) = "None" THEN <<>>
    ELSE IF CleanCodeIsEmpty(code) THEN <<>>
    ELSE IF code.raises THEN <<>>
    ELSE IF code.nodes[1] = "ERROR" THEN <<>>
    ELSE SelectSeq(code.nodes, LAMBDA t : t # "ERROR")

\* TreeSitterStructuralAnalyzer.compute_similarity
TsComputeSimilarity(code1, code2, language) ==
    LET nodes1 == ExtractAstNodeTypes(code1, language)
        nodes2 == ExtractAstNodeTypes(code2, language)
        set1 == {nodes1[k] : k \in 1..Len(nodes1)}
        set2 == {nodes2[k] : k \in 1..Len(nodes2)}
        intersection == Cardinality(set1 \cap set2)
        union == Cardinality(set1 \cup set2)
    IN  IF nodes1 = <<>> \/ nodes2 = <<>> THEN 0
        ELSE IF union = 0 THEN 0
        ELSE (intersection * 100000) \div union

TsInit ==
    /\ GstOff /\ FuseOff /\ StructOff /\ NormOff
    /\ CallOff /\ AstOff /\ PyOff /\ CfgOff /\ BatchOff /\ CacheOff
    /\ ts_language \in TsLanguages
    /\ ts_code1 \in TsCodes
    /\ ts_code2 \in TsCodes
    /\ ts_similarity = 0
    /\ tpc = "call"

TsCompute ==
    /\ tpc = "call"
    /\ ts_similarity' = TsComputeSimilarity(ts_code1, ts_code2, ts_language)
    /\ tpc' = "done"
    /\ UNCHANGED <<ts_language, ts_code1, ts_code2>>
    /\ UNCHANGED notTs

TsNext == TsCompute

TsSpec == TsInit /\ [][TsNext]_vars

(***************************************************************************)
(* C20                                                                     *)
(***************************************************************************)
\* the distinct node-type labels of a side: none for an unsupported (or
\* unloadable) language, for empty code, for a failed parse and for a tree
\* whose root is an ERROR node; ERROR is never a label
LabelSet(code, language) ==
    IF \/ StripLower(language.name) \notin {"python", "java", "cpp", "c++", "c"}
       \/ ~language.grammar_loads
       \/ code.kind # "text"
       \/ code.raises
    THEN {}
    ELSE IF code.nodes[1] = "ERROR" THEN {}
    ELSE {code.nodes[k] : k \in 1..Len(code.nodes)} \ {"ERROR"}

\* C20: the node-type score is 100 times the Jaccard index of the two label
\* sets (rounded down to the fixed-point unit), ERROR never being a label, and
\* it is 0 whenever either label set is empty.
C20_JaccardOfLabels ==
    tpc = "done" =>
        LET s1 == LabelSet(ts_code1, ts_language)
            s2 == LabelSet(ts_code2, ts_language)
        IN  IF s1 = {} \/ s2 = {} THEN ts_similarity = 0
            ELSE ts_similarity =
                    (Cardinality(s1 \cap s2) * 100000) \div Cardinality(s1 \cup s2)

\* both trees hold an ERROR node below the root and share only part of
\* their other labels
C20_Witness ==
    /\ tpc = "done"
    /\ ts_similarity > 0 /\ ts_similarity < 100000
    /\ \E k \in 1..Len(ts_code1.nodes) : ts_code1.nodes[k] = "ERROR"
    /\ \E k \in 1..Len(ts_code2.nodes) : ts_code2.nodes[k] = "ERROR"

(***************************************************************************)
(* The structural analyzers side by side: a behaviour of ScoresSpec is a   *)
(* behaviour of one of them, the three sub-methods or the                  *)
(* StructuralSimilarity front end.                                         *)
(***************************************************************************)
ScoresInit == GstInit \/ AstInit \/ TsInit \/ StructInit

ScoresNext == GstNext \/ AstNext \/ TsNext \/ StructNext

ScoresSpec == ScoresInit /\ [][ScoresNext]_vars

(***************************************************************************)
(* C19                                                                     *)
(***************************************************************************)
Percent == 0..100000

\* C19: every structural score lies in [0, 100]: the feature syntax-tree
\* score whenever the call returns, the GST score, the node-type score, and
\* the score StructuralSimilarity.compute_similarity returns in each method
\* mode from sub-scores that lie in [0, 100].
C19_StructuralScoresInRange ==
    /\ apc = "done" /\ ast_similarity.raised = "none" => ast_similarity.score \in Percent
    /\ gpc = "returned" => gst_similarity \in Percent
    /\ tpc = "done" => ts_similarity \in Percent
    /\ spc = "done" /\ ast_score \in Percent /\ rkgst_score \in Percent =>
          structural_result.score \in Percent

\* two token sequences tiled completely: the GST score sits at the upper end
C19_Witness ==
    /\ gpc = "returned"
    /\ matches # <<>>
    /\ gst_similarity = 100000

(***************************************************************************)
(* C21                                                                     *)
(***************************************************************************)
\* a run of L tokens from i in tokens1 and from j in tokens2, unclaimed on
\* both sides and equal token for token
Available(i, j, L) ==
    /\ L >= 1
    /\ i + L <= Len(tokens1)
    /\ j + L <= Len(tokens2)
    /\ ~AnyMarked(marked1, i, i + L)
    /\ ~AnyMarked(marked2, j, j + L)
    /\ Slice(tokens1, i, i + L) = Slice(tokens2, j, j + L)

\* C21: when _greedy_string_tiling returns, no run of min_match_length
\* consecutive unclaimed tokens of sequence 1 equals a run of consecutive
\* unclaimed tokens of sequence 2.
C21_NoMatchRemains ==
    gpc = "done" =>
        ~ \E i \in 0..Len(tokens1), j \in 0..Len(tokens2) : Available(i, j, min_match_length)

(***************************************************************************)
(* GST on reordered code: the two token sequences hold the same blocks in   *)
(* a different order, block k being one, two or three copies of the k-th   *)
(* token, so that tiles of different lengths compete.  The tiling itself   *)
(* is GstNext.                                                             *)
(***************************************************************************)
MaxBlocks == 3       \* number of distinct blocks; at most Len(TokenNames)

TokenNames == <<"a", "b", "c", "d", "e">>

BlockTokens == {TokenNames[k] : k \in 1..MaxBlocks}

Block(k) == [n \in 1..(((k - 1) % 3) + 1) |-> TokenNames[k]]

\* sequences of distinct block numbers
Arrangements ==
    {s \in SeqsUpTo(1..MaxBlocks, MaxBlocks) : \A x, y \in 1..Len(s) : x # y => s[x] # s[y]}

RECURSIVE Flatten(_)
Flatten(s) == IF s = <<>> THEN <<>> ELSE Block(Head(s)) \o Flatten(Tail(s))

\* hash(token): all tokens collide, or tokens collide by parity of their block
BlockHashes == {[t \in BlockTokens |-> 0],
                [t \in BlockTokens |-> (CHOOSE k \in 1..MaxBlocks : TokenNames[k] = t) % 2]}

TilingInit ==
    /\ FuseOff /\ StructOff /\ NormOff /\ MoreOff
    /\ \E s1, s2 \in Arrangements :
          /\ {s1[x] : x \in 1..Len(s1)} = {s2[x] : x \in 1..Len(s2)}
          /\ tokens1 = Flatten(s1)
          /\ tokens2 = Flatten(s2)
    /\ min_match_length \in {1, 3}     \* 1 and the default of RKGST_CONFIG
    /\ tokhash \in BlockHashes
    /\ marked1 = <<>>
    /\ marked2 = <<>>
    /\ matches = <<>>
    /\ gst_similarity = 0
    /\ gpc = "idle"

TilingSpec == TilingInit /\ [][GstNext]_vars

(***************************************************************************)
(* C22                                                                     *)
(***************************************************************************)
\* C22: at every iteration the tile GST accepts is a longest available match:
\* no pair of start positions has a longer run of tokens that is unclaimed on
\* both sides at that moment and equal token for token.
C22_TileIsLongest ==
    gpc = "loop" =>
        LET best_match == BestMatch
        IN  IF best_match = <<>> THEN TRUE
            ELSE best_match[3] >= min_match_length =>
                    \A L \in (best_match[3] + 1)..Min(Len(tokens1), Len(tokens2)) :
                        ~ \E i \in 0..Len(tokens1), j \in 0..Len(tokens2) : Available(i, j, L)

(***************************************************************************)
(* C23                                                                     *)
(***************************************************************************)
\* two windows of the same length that differ in some token and hash alike
Collide(i, j, L) ==
    /\ i + L <= Len(tokens1)
    /\ j + L <= Len(tokens2)
    /\ Slice(tokens1, i, i + L) # Slice(tokens2, j, j + L)
    /\ HashSequence(Slice(tokens1, i, i + L), tokhash)
         = HashSequence(Slice(tokens2, j, j + L), tokhash)

\* C23: a hash hit alone never produces a tile: every accepted tile
\* (s1, s2, len) has tokens1[s1+k] = tokens2[s2+k] for all 0 <= k < len, also
\* when different token runs hash to the same value.
C23_TilesAreEqualRuns ==
    \A a \in 1..Len(matches) :
        \A k \in 0..(matches[a][3] - 1) :
            tokens1[matches[a][1] + k + 1] = tokens2[matches[a][2] + k + 1]

\* a tile was accepted although a colliding, unequal pair of windows of the
\* minimum length starts at the first token of sequence 1
C23_Witness ==
    /\ gpc = "done"
    /\ matches # <<>>
    /\ \E j \in 0..Len(tokens2) : Collide(0, j, min_match_length)

(***************************************************************************)
(* C30                                                                     *)
(***************************************************************************)
\* with every token hashing to 0 every window hashes to 0, the hash
\* comparison of _rk_find_matches is always true and only the token
\* comparison decides: the tiling with the hash comparison removed
NoHash == [t \in DOMAIN tokhash |-> 0]

\* C30: the rolling hash only prunes: for every pair of token sequences and
\* every per-token hash function, the tile list GST returns is the one it
\* returns when the hash comparison is removed and only token equality is
\* tested.
C30_HashOnlyPrunes ==
    gpc = "done" =>
        matches = GreedyStringTiling(tokens1, tokens2, min_match_length, NoHash)

\* two tiles were returned under a hash function that is not the trivial one
\* and under which two unequal windows collide
C30_Witness ==
    /\ gpc = "done"
    /\ Len(matches) >= 2
    /\ tokhash # NoHash
    /\ \E i \in 0..Len(tokens1), j \in 0..Len(tokens2) : Collide(i, j, min_match_length)

(***************************************************************************)
(* C29                                                                     *)
(***************************************************************************)
\* C29: the GST score is symmetric in its arguments: compute_similarity(a, b)
\* equals compute_similarity(b, a).
C29_ScoreSymmetric ==
    gpc = "returned" =>
        gst_similarity = RkgstSimilarity(tokens2, tokens1, min_match_length, tokhash)

(***************************************************************************)
(* C28                                                                     *)
(***************************************************************************)
\* C28: GST always terminates: each iteration of the loop of
\* _greedy_string_tiling either exits or claims at least min_match_length
\* previously unclaimed tokens on each side, so the number of tiles times
\* min_match_length never exceeds the shorter sequence, and the call returns.
C28_Terminates ==
    /\ [][(gpc = "loop" /\ gpc' = "loop") =>
             /\ Len(matches') = Len(matches) + 1
             /\ Claimed(marked1') >= Claimed(marked1) + min_match_length
             /\ Claimed(marked2') >= Claimed(marked2) + min_match_length]_vars
    /\ [](Len(matches) * min_match_length <= Min(Len(tokens1), Len(tokens2)))
    /\ <>(gpc = "returned")

\* a call that returned after two iterations whose tiles use up the shorter
\* sequence
C28_Witness ==
    /\ gpc = "returned"
    /\ Len(matches) >= 2
    /\ Claimed(marked1) = Min(Len(tokens1), Len(tokens2))

(***************************************************************************)
(* C24                                                                     *)
(***************************************************************************)
\* the argument and the result of the latest normalize() call of NormSpec
LastCode == CASE npc = "first" -> code_a [] npc = "second" -> code_b [] OTHER -> norm_a
LastOut == CASE npc = "first" -> norm_a [] npc = "second" -> norm_b [] OTHER -> renorm

\* the raw tokens _normalize_to_tokens hands to _normalize_token
RawTokens(code) ==
    TokenizeFrom(CollapseLinesFrom(CollapseBlanks(RemoveComments(DecodeEscapes(code))), 1), 1)

\* the raw tokens that reach the identifier branch of _normalize_token
SlotTokens(toks) ==
    {toks[k] : k \in {x \in 1..Len(toks) :
        /\ ToLower(toks[x]) \notin KEYWORDS \cup TYPES
        /\ ~IsNumberToken(toks[x])
        /\ IsIdentifierToken(toks[x])}}

FirstAt(toks, id) == CHOOSE k \in 1..Len(toks) : toks[k] = id /\ \A j \in 1..(k - 1) : toks[j] # id

LabelNo(id) == CHOOSE k \in 1..var_counter : identifier_map[id] = VarLabel(k)

\* C24: within one normalize() run the slot labels are VAR1, VAR2, ... in the
\* order of each identifier's first appearance, every occurrence of an
\* identifier gets that identifier's label, and two different identifiers
\* never share a label.
C24_SlotLabels ==
    npc \in {"first", "second", "again"} =>
        LET toks == RawTokens(LastCode)
            ids  == SlotTokens(toks)
            out  == NormalizeToTokens(LastCode, FreshState).tokens
        IN  /\ JoinFrom(out, 1) = LastOut
            /\ DOMAIN identifier_map = ids
            /\ var_counter = Cardinality(ids)
            /\ \A id \in ids : \E k \in 1..var_counter : identifier_map[id] = VarLabel(k)
            /\ \A a, b \in ids : a # b => identifier_map[a] # identifier_map[b]
            /\ \A a, b \in ids :
                  FirstAt(toks, a) < FirstAt(toks, b) => LabelNo(a) < LabelNo(b)
            /\ Len(out) = Len(toks)
            /\ \A k \in 1..Len(toks) : toks[k] \in ids => out[k] = identifier_map[toks[k]]

\* an identifier came back after a second one had taken the next slot
C24_Witness ==
    /\ npc = "first"
    /\ var_counter = 2
    /\ norm_a = VarLabel(1) \o <<" ">> \o VarLabel(2) \o <<" ">> \o VarLabel(1)

(***************************************************************************)
(* C25                                                                     *)
(***************************************************************************)
\* the elements of seq at the positions in S, in order
RECURSIVE Pick(_, _, _)
Pick(seq, S, k) ==
    IF k > Len(seq) THEN <<>>
    ELSE (IF k \in S THEN <<seq[k]>> ELSE <<>>) \o Pick(seq, S, k + 1)

\* length of a longest common subsequence, from its definition
LongestCommon(seq1, seq2) ==
    LET common == {Cardinality(S1) : S1 \in {S \in SUBSET (1..Len(seq1)) :
                        \E S2 \in SUBSET (1..Len(seq2)) : Pick(seq1, S, 1) = Pick(seq2, S2, 1)}}
    IN  CHOOSE n \in common : \A m \in common : m <= n

\* C25: the control-flow score and the call score are each 1.0 when both
\* sides' collections are empty and 0.0 when exactly one is empty; the
\* tree-shape score is 0 for an empty fingerprint and otherwise the length of
\* a longest common subsequence over the longer fingerprint's length.
C25_EmptyRules ==
    (apc = "done" /\ tree1.status = "ok" /\ tree2.status = "ok") =>
        LET f1 == ExtractFeatures(tree1.walk)
            f2 == ExtractFeatures(tree2.walk)
            fp1 == TypesOf(tree1.walk)
            fp2 == TypesOf(tree2.walk)
            cf == ControlFlowSimilarity(f1, f2)
            calls == FunctionCallSimilarity(f1, f2)
        IN  /\ (f1.control_flow = <<>> /\ f2.control_flow = <<>>) => cf = ONE
            /\ (f1.control_flow = <<>>) # (f2.control_flow = <<>>) => cf = 0
            /\ (f1.function_calls = {} /\ f2.function_calls = {}) => calls = ONE
            /\ (f1.function_calls = {}) # (f2.function_calls = {}) => calls = 0
            /\ SequenceSimilarity(<<>>, fp2) = 0
            /\ SequenceSimilarity(fp1, <<>>) = 0
            /\ TreeEditDistance(tree1.walk, tree2.walk)
                  = (LongestCommon(fp1, fp2) * ONE) \div Max(Len(fp1), Len(fp2))

\* one side has control flow and the other has none, while neither calls a
\* function, and the fingerprints differ in length
C25_Witness ==
    /\ apc = "done" /\ tree1.status = "ok" /\ tree2.status = "ok"
    /\ ControlFlowOf(tree1.walk) # <<>>
    /\ ControlFlowOf(tree2.walk) = <<>>
    /\ ExtractFeatures(tree1.walk).function_calls = {}
    /\ ExtractFeatures(tree2.walk).function_calls = {}
    /\ Len(tree1.walk) # Len(tree2.walk)

(***************************************************************************)
(* C27                                                                     *)
(***************************************************************************)
\* C27: for every pair of parseable inputs the data-flow score equals the
\* tree-shape score, so the final score is
\* 100 * (0.50 * shape + 0.30 * control-flow + 0.20 * calls).
C27_DataFlowIsShape ==
    (apc = "done" /\ tree1.status = "ok" /\ tree2.status = "ok") =>
        LET f1 == ExtractFeatures(tree1.walk)
            f2 == ExtractFeatures(tree2.walk)
            shape == TreeEditDistance(tree1.walk, tree2.walk)
        IN  /\ DataFlowSimilarity(f1, f2) = shape
            /\ ast_similarity.raised = "none"
            /\ ast_similarity.score =
                  (50 * shape + 30 * ControlFlowSimilarity(f1, f2)
                      + 20 * FunctionCallSimilarity(f1, f2)) \div 100

\* both sides hold control flow and a call, and the trees differ in shape
C27_Witness ==
    /\ apc = "done" /\ tree1.status = "ok" /\ tree2.status = "ok"
    /\ ControlFlowOf(tree1.walk) # <<>>
    /\ ExtractFeatures(tree2.walk).function_calls # {}
    /\ TreeEditDistance(tree1.walk, tree2.walk) \notin {0, ONE}
    /\ ast_similarity.score \notin {0, 100000}

(***************************************************************************)
(* The language and parser caches of one TreeSitterStructuralAnalyzer,     *)
(* over a sequence of _get_parser calls (extract_ast_node_types makes one  *)
(* per code string) that spell the language in different ways.             *)
(***************************************************************************)
MaxParserCalls == 3      \* _get_parser calls made on one instance

\* the language arguments of the model with their str(language).strip().lower()
LanguageSpellings ==
    [s \in {"python", "Python", " python ", "java", "cpp", "c++", "C", "ruby"} |->
        CASE s \in {"Python", " python "} -> "python"
          [] s = "C" -> "c"
          [] OTHER -> s]

\* the values of SUPPORTED_LANGUAGES
TsGrammars == {SUPPORTED_LANGUAGES[l] : l \in DOMAIN SUPPORTED_LANGUAGES}

CacheInit ==
    /\ GstOff /\ FuseOff /\ StructOff /\ NormOff
    /\ CallOff /\ AstOff /\ TsOff /\ PyOff /\ CfgOff /\ BatchOff
    /\ language_cache = {}
    /\ parser_cache = {}
    /\ grammars_built = [g \in TsGrammars |-> 0]
    /\ parsers_built = [g \in TsGrammars |-> 0]
    /\ nparser_calls = 0
    /\ kpc = "calls"

\* _get_parser(language) with _get_ts_language inlined; loads tells whether
\* get_language returns a grammar or raises when it is called
GetParserCall ==
    /\ kpc = "calls"
    /\ nparser_calls < MaxParserCalls
    /\ \E language \in DOMAIN LanguageSpellings, loads \in BOOLEAN :
          LET lang == LanguageSpellings[language]
          IN  IF lang \notin DOMAIN SUPPORTED_LANGUAGES
              THEN \* unsupported: return None
                   UNCHANGED <<language_cache, parser_cache, grammars_built, parsers_built>>
              ELSE LET key == SUPPORTED_LANGUAGES[lang]
                       cached == key \in language_cache
                   IN  IF ~cached /\ ~loads
                       THEN \* get_language raised: return None
                            UNCHANGED <<language_cache, parser_cache, grammars_built,
                                        parsers_built>>
                       ELSE /\ language_cache' = language_cache \cup {key}
                            /\ grammars_built' =
                                  IF cached THEN grammars_built
                                  ELSE [grammars_built EXCEPT ![key] = @ + 1]
                            /\ IF language \notin parser_cache
                               THEN /\ parsers_built' = [parsers_built EXCEPT ![key] = @ + 1]
                                    /\ parser_cache' = parser_cache \cup {language}
                               ELSE UNCHANGED <<parsers_built, parser_cache>>
    /\ nparser_calls' = nparser_calls + 1
    /\ UNCHANGED kpc
    /\ UNCHANGED notCache

CacheNext == GetParserCall

CacheSpec == CacheInit /\ [][CacheNext]_vars

(***************************************************************************)
(* C26                                                                     *)
(***************************************************************************)
\* C26: over any sequence of calls on one analyzer, each grammar and each
\* parser is constructed at most once per supported language, whatever
\* accepted spelling of the language name the calls use.
C26_BuiltOncePerLanguage ==
    kpc = "calls" =>
        \A g \in TsGrammars : grammars_built[g] <= 1 /\ parsers_built[g] <= 1

====
